---- MODULE Spec2Model ----
(***************************************************************************)
(* libcore: the standard-library I/O redirection shim.                     *)
(*                                                                         *)
(* libcore/platform/syscall.hpp : SysCall, StaticSysCall, SysCallManager   *)
(*                                (registry, Write/Read, buffered stream)  *)
(* libcore/platform/newlib.hpp  : Newlib, StaticNewlib, NewlibManager,     *)
(*                                _write, _read                            *)
(*                                                                         *)
(* Both headers define the C symbol _exit, so a program is built with one  *)
(* of them; the variable shim says which.                                  *)
(*                                                                         *)
(* libcore/peripherals/gpio.hpp   : Gpio helpers, PinSettings_t            *)
(* libcore/utility/build_info.hpp : kPlatform, IsPlatform                  *)
(* libcore/platform/ram.hpp       : InitializeDataSection,                 *)
(*                                  InitializeBssSection                   *)
(***************************************************************************)
EXTENDS Integers, Sequences, FiniteSets, TLC

VARIABLES
  shim,             \* which header the program is built with
  reg,              \* the registry objects: their arena and handler vectors
  platform_newlib,  \* the manager's pointer to the active registry
  buffer,           \* SysCallManager::buffer
  put_log,          \* every byte given to PutChar so far, in call order
  put_via,          \* for each of those bytes, the entry of __iob it was
                    \* put through
  put_to,           \* for each of those bytes, the writers the active
                    \* registry held when it was put
  run,              \* the bytes put since PutChar last found the buffer empty
  run_flushes,      \* the Write calls made by those PutChar calls
  flushed,          \* the Write calls made by the stream's Flush so far
  heap_position,    \* heap_position of constants.hpp, as an offset from the
                    \* start of the built-in heap region
  halted,           \* whether _exit has reached its final loop
  last,             \* the last operation: arguments, result, handler calls
  gpio,             \* a Gpio object: its settings, the PinSettings_t value the
                    \* last settings call returned, the last call made on it
                    \* and the virtual methods that call invoked
  build,            \* build_info: kPlatform and the last IsPlatform call
  memory,           \* the linker's sections: the .data load region in ROM,
                    \* .data and .bss in RAM; which ram.hpp the program is
                    \* built with; the last initialisation call
  main_flow         \* where the main flow stands inside PutChar: the statement
                    \* it runs next, its arguments, and the statements before
                    \* which an interrupt handler has called PutChar so far

\* the state of the I/O shim and the state of the rest of the library
io == <<shim, reg, platform_newlib, buffer, put_log, put_via, put_to, run,
        run_flushes, flushed, heap_position, halted, last, main_flow>>
board == <<gpio, build, memory>>

vars == <<io, board>>

----------------------------------------------------------------------------
(* Bounds of the model.                                                    *)

\* largest callback_count a platform registry is instantiated with
MaxCallbackCount == 3
\* BUFSIZ of <cstdio>, the capacity of the stream buffer, kept small
BUFSIZ == 3
\* longest buffer handed to Write / _write, largest length asked of Read
MaxLen == 2
\* Write calls the stream has made when a further explicit Flush is not explored
MaxFlushed == 2
\* PutChar calls of one behaviour: enough to fill the buffer and overflow it
MaxPut == BUFSIZ + 1
\* bytes between the start of the built-in heap region and heap_end
HeapSize == 3
\* largest magnitude of the increment passed to _sbrk
MaxIncrement == 2
\* _sbrk calls that would take heap_position lower are not explored
MinHeapPosition == 0 - MaxIncrement
\* bytes a program puts through stdio before it calls HandleExceptionPointer
\* or _exit
MaxPutBeforeExit == 1
\* largest function code a PinSettings_t holds
MaxFunctionCode == 1
\* largest size, in bytes, of the .data and of the .bss section
MaxSectionSize == 2

----------------------------------------------------------------------------
(* Values.                                                                 *)

Shims == {"syscall.hpp", "newlib.hpp"}
RegIds == {"default_newlib", "platform"}
WriterIds == {"w1", "w2"}
ReaderIds == {"r1", "r2"}
AllocatorIds == {"a1"}
\* the closures AddSerial derives from its sjsu::Uart & serial_port
SerialWriter == "serial_port.Write"
SerialReader == "serial_port.Read"
Files == {"stdio", "file1"}
Newline == "\n"
Chars == {"h", "i", Newline}
NUL == "NUL"

Max(a, b) == IF a >= b THEN a ELSE b
Min(a, b) == IF a <= b THEN a ELSE b

RECURSIVE Flatten(_)
Flatten(ss) == IF ss = <<>> THEN <<>> ELSE Head(ss) \o Flatten(Tail(ss))

SeqsUpTo(S, n) == UNION {[1..k -> S] : k \in 0..n}

----------------------------------------------------------------------------
(* The fixed-capacity arena and the handler vectors.                       *)

\* sizeof(write_function): the size of one std::function object
kBytesPerCallback == 16

kReserveBytesOffByOne(callback_count) == kBytesPerCallback * (callback_count + 1)
kReserveBytes(callback_count) == kBytesPerCallback * callback_count

\* StaticMemoryResource<kReserveBytes>::allocate: carve bytes from the
\* remaining region, fail when too little remains; nothing is ever given back.
CanAllocate(used, capacity, bytes) == used + bytes <= capacity

\* std::vector's growth when push_back finds size = capacity
GrowCapacity(size) == size + Max(size, 1)

\* an insertion at the front of the vector instead of its end
push_front(vec, cap, used, reserve, x) ==
  IF Len(vec) < cap
    THEN [ok |-> TRUE, vec |-> <<x>> \o vec, cap |-> cap, used |-> used]
    ELSE LET ncap == GrowCapacity(Len(vec))
             bytes == ncap * kBytesPerCallback
         IN IF CanAllocate(used, reserve, bytes)
              THEN [ok |-> TRUE, vec |-> <<x>> \o vec, cap |-> ncap,
                    used |-> used + bytes]
              ELSE [ok |-> FALSE, vec |-> vec, cap |-> cap, used |-> used]

\* vec.push_back(x) on a std::pmr::vector whose allocator is the arena:
\* the new storage is allocated while the old one is still held, and a
\* failed allocation leaves the vector as it was (std::bad_alloc).
push_back(vec, cap, used, reserve, x) ==
  IF Len(vec) < cap
    THEN [ok |-> TRUE, vec |-> Append(vec, x), cap |-> cap, used |-> used]
    ELSE LET ncap == GrowCapacity(Len(vec))
             bytes == ncap * kBytesPerCallback
         IN IF CanAllocate(used, reserve, bytes)
              THEN [ok |-> TRUE, vec |-> Append(vec, x), cap |-> ncap,
                    used |-> used + bytes]
              ELSE [ok |-> FALSE, vec |-> vec, cap |-> cap, used |-> used]

\* StaticSysCall() / StaticNewlib(): an empty arena and empty vectors
FreshRegistry(kind, cc) ==
  [kind |-> kind, callback_count |-> cc, used |-> 0,
   sbrk |-> <<>>, sbrk_cap |-> 0,
   write |-> <<>>, write_cap |-> 0,
   read |-> <<>>, read_cap |-> 0]

\* inline static StaticSysCall<2> default_newlib
DefaultCallbackCount == 2

\* GetWriter(): the view of the registered writers
GetWriter(r) ==
  IF reg[r].kind = "DefaultNewlib" THEN <<"dummy_write_function">>
  ELSE reg[r].write

\* GetReader(): the view of the registered readers
GetReader(r) ==
  IF reg[r].kind = "DefaultNewlib" THEN <<"dummy_read_function">>
  ELSE reg[r].read

\* GetHeapAllocators(): the view of the registered heap allocators
GetHeapAllocators(r) ==
  IF reg[r].kind = "DefaultNewlib" THEN <<"dummy_sbrk_function">>
  ELSE reg[r].sbrk

\* Get that returns the registry the manager was constructed with
GetDefaultNewlib == "default_newlib"

\* SysCallManager::Get / NewlibManager::Get
Get == platform_newlib

----------------------------------------------------------------------------
(* The rest of the library before the program uses it.                     *)

\* PinSettings_t's default member initialisers
PinSettingsDefault ==
  [function |-> 0, resistor |-> "kPullUp", open_drain |-> FALSE,
   as_analog |-> FALSE]

\* no call made yet on the Gpio object
GpioIdle(settings) ==
  [settings |-> settings, returned |-> settings, op |-> "none",
   on |-> "none", pre |-> settings, pre_returned |-> settings,
   calls |-> <<>>]

\* a text as the sequence of its characters
host == <<"h", "o", "s", "t">>

\* no IsPlatform call made yet
BuildIdle(kPlatform) ==
  [kPlatform |-> kPlatform, platform |-> <<>>, ret |-> FALSE, op |-> "none"]

\* no initialisation call made yet
MemoryIdle(ram_hpp, data_load, data, bss) ==
  [ram_hpp |-> ram_hpp, data_load |-> data_load, data |-> data, bss |-> bss,
   op |-> "none", pre |-> [data_load |-> data_load, data |-> data, bss |-> bss]]

\* a host build that has not touched the Gpio object or the sections
BoardAtReset ==
  /\ gpio = GpioIdle(PinSettingsDefault)
  /\ build = BuildIdle(host)
  /\ memory = MemoryIdle("ram.hpp:93", <<>>, <<>>, <<>>)

----------------------------------------------------------------------------
(* The record of the last operation.                                       *)

\* a pointer: the region it points into and the offset from the region's
\* start; the built-in heap region is "heap"
nullptr == [region |-> "nullptr", offset |-> 0]

\* the main flow outside PutChar, no interrupt taken inside PutChar so far
MainIdle == [pc |-> "idle", c |-> NUL, file |-> "none", windows |-> {}]

NoOp ==
  [op |-> "none", reg_id |-> "none", file |-> "none", data |-> <<>>, len |-> 0,
   ret |-> 0, exception |-> "none", calls |-> <<>>, dest |-> <<>>,
   writes |-> <<>>, byte |-> NUL, pre_reg |-> reg, pre_buffer |-> buffer,
   ptr |-> nullptr, pre_heap |-> heap_position, fault |-> "none"]

\* the static members of the managers and the registries, as constructed
InitShim ==
  /\ shim \in Shims
  /\ \E cc \in 0..MaxCallbackCount :
       reg = [r \in RegIds |->
                IF r = "default_newlib"
                  THEN IF shim = "syscall.hpp"
                         THEN FreshRegistry("StaticSysCall", DefaultCallbackCount)
                         ELSE FreshRegistry("DefaultNewlib", 0)
                  ELSE IF shim = "syscall.hpp"
                         THEN FreshRegistry("StaticSysCall", cc)
                         ELSE FreshRegistry("StaticNewlib", cc)]
  /\ platform_newlib = "default_newlib"
  /\ buffer = <<>>
  /\ put_log = <<>>
  /\ put_via = <<>>
  /\ put_to = <<>>
  /\ run = <<>>
  /\ run_flushes = <<>>
  /\ flushed = <<>>
  /\ heap_position = 0
  /\ halted = FALSE
  /\ main_flow = MainIdle
  /\ last = [op |-> "none", reg_id |-> "none", file |-> "none", data |-> <<>>,
             len |-> 0, ret |-> 0, exception |-> "none", calls |-> <<>>,
             dest |-> <<>>, writes |-> <<>>, byte |-> NUL, pre_reg |-> reg,
             pre_buffer |-> <<>>, ptr |-> nullptr, pre_heap |-> 0,
             fault |-> "none"]

Init == InitShim /\ BoardAtReset

----------------------------------------------------------------------------
(* Registration.                                                           *)

\* Set that installs a registry only while the default one is active
SetKeepsFirst(r) ==
  /\ platform_newlib' = IF platform_newlib = "default_newlib" THEN r
                        ELSE platform_newlib
  /\ last' = [NoOp EXCEPT !.op = "Set", !.reg_id = r]
  /\ UNCHANGED <<board, main_flow, heap_position, halted, shim, reg, buffer, put_log, put_via, put_to, run, run_flushes, flushed>>

\* SysCallManager::Set / NewlibManager::Set
Set(r) ==
  /\ platform_newlib' = r
  /\ last' = [NoOp EXCEPT !.op = "Set", !.reg_id = r]
  /\ UNCHANGED <<board, main_flow, heap_position, halted, shim, reg, buffer, put_log, put_via, put_to, run, run_flushes, flushed>>

\* AddWriter whose DefaultNewlib override returns without registering and
\* without throwing
AddWriterIgnoredByDefault(r, h) ==
  LET o == reg[r]
      p == push_back(o.write, o.write_cap, o.used,
                     kReserveBytes(o.callback_count), h)
      ok == o.kind # "DefaultNewlib" /\ p.ok
  IN /\ reg' = IF ok
                 THEN [reg EXCEPT ![r].write = p.vec, ![r].write_cap = p.cap,
                                  ![r].used = p.used]
                 ELSE reg
     /\ last' = [NoOp EXCEPT !.op = "AddWriter", !.reg_id = r, !.data = <<h>>,
                   !.exception = IF ok \/ o.kind = "DefaultNewlib" THEN "none"
                                 ELSE "bad_alloc"]
     /\ UNCHANGED <<board, main_flow, heap_position, halted, shim, platform_newlib, buffer, put_log, put_via, put_to, run, run_flushes, flushed>>

\* StaticSysCall::AddWriter, StaticNewlib::AddWriter: write.push_back;
\* DefaultNewlib::AddWriter: throw std::bad_alloc
AddWriter(r, h) ==
  LET o == reg[r]
      p == push_back(o.write, o.write_cap, o.used,
                     kReserveBytes(o.callback_count), h)
      ok == o.kind # "DefaultNewlib" /\ p.ok
  IN /\ reg' = IF ok
                 THEN [reg EXCEPT ![r].write = p.vec, ![r].write_cap = p.cap,
                                  ![r].used = p.used]
                 ELSE reg
     /\ last' = [NoOp EXCEPT !.op = "AddWriter", !.reg_id = r, !.data = <<h>>,
                   !.exception = IF ok THEN "none" ELSE "bad_alloc"]
     /\ UNCHANGED <<board, main_flow, heap_position, halted, shim, platform_newlib, buffer, put_log, put_via, put_to, run, run_flushes, flushed>>

\* StaticSysCall::AddReader, StaticNewlib::AddReader: read.push_back;
\* DefaultNewlib::AddReader: throw std::bad_alloc
AddReader(r, h) ==
  LET o == reg[r]
      p == push_back(o.read, o.read_cap, o.used,
                     kReserveBytes(o.callback_count), h)
      ok == o.kind # "DefaultNewlib" /\ p.ok
  IN /\ reg' = IF ok
                 THEN [reg EXCEPT ![r].read = p.vec, ![r].read_cap = p.cap,
                                  ![r].used = p.used]
                 ELSE reg
     /\ last' = [NoOp EXCEPT !.op = "AddReader", !.reg_id = r, !.data = <<h>>,
                   !.exception = IF ok THEN "none" ELSE "bad_alloc"]
     /\ UNCHANGED <<board, main_flow, heap_position, halted, shim, platform_newlib, buffer, put_log, put_via, put_to, run, run_flushes, flushed>>

\* StaticNewlib::AddHeapAllocators: sbrk.push_back;
\* DefaultNewlib::AddHeapAllocators: throw std::bad_alloc
AddHeapAllocators(r, h) ==
  /\ shim = "newlib.hpp"
  /\ LET o == reg[r]
         p == push_back(o.sbrk, o.sbrk_cap, o.used,
                        kReserveBytes(o.callback_count), h)
         ok == o.kind # "DefaultNewlib" /\ p.ok
     IN /\ reg' = IF ok
                    THEN [reg EXCEPT ![r].sbrk = p.vec, ![r].sbrk_cap = p.cap,
                                     ![r].used = p.used]
                    ELSE reg
        /\ last' = [NoOp EXCEPT !.op = "AddHeapAllocators", !.reg_id = r,
                      !.data = <<h>>,
                      !.exception = IF ok THEN "none" ELSE "bad_alloc"]
  /\ UNCHANGED <<board, main_flow, heap_position, halted, shim, platform_newlib, buffer, put_log, put_via, put_to, run, run_flushes, flushed>>

\* SysCall::AddSerial(serial_port): AddWriter of the writing closure, then
\* AddReader of the reading closure; an exception of the first call skips the
\* second, an exception of the second leaves the first call's effect
AddSerial(r) ==
  /\ shim = "syscall.hpp"
  /\ LET o == reg[r]
         w == push_back(o.write, o.write_cap, o.used,
                        kReserveBytes(o.callback_count), SerialWriter)
         o1 == IF w.ok
                 THEN [o EXCEPT !.write = w.vec, !.write_cap = w.cap,
                                !.used = w.used]
                 ELSE o
         rd == push_back(o1.read, o1.read_cap, o1.used,
                         kReserveBytes(o1.callback_count), SerialReader)
         o2 == IF w.ok /\ rd.ok
                 THEN [o1 EXCEPT !.read = rd.vec, !.read_cap = rd.cap,
                                 !.used = rd.used]
                 ELSE o1
     IN /\ reg' = [reg EXCEPT ![r] = o2]
        /\ last' = [NoOp EXCEPT !.op = "AddSerial", !.reg_id = r,
                      !.data = <<SerialWriter, SerialReader>>,
                      !.exception = IF w.ok /\ rd.ok THEN "none"
                                    ELSE "bad_alloc"]
  /\ UNCHANGED <<board, main_flow, heap_position, halted, shim, platform_newlib, buffer, put_log, put_via, put_to, run, run_flushes, flushed>>

\* a program's registration calls on the registries of R
Registration(R) ==
  \/ \E r \in RegIds : Set(r)
  \/ \E r \in R, h \in WriterIds : AddWriter(r, h)
  \/ \E r \in R, h \in ReaderIds : AddReader(r, h)
  \/ \E r \in R, h \in AllocatorIds : AddHeapAllocators(r, h)
  \/ \E r \in R : AddSerial(r)

----------------------------------------------------------------------------
(* The registered handlers, as the dispatch code sees them.                 *)

\* what a registered write_function returns for a buffer of the given length:
\* w1 reports the full length, w2 reports an error; DefaultNewlib's
\* dummy_write_function returns 0
WriterResult(h, len) ==
  IF h = "w1" THEN len ELSE IF h = "w2" THEN 0 - 1 ELSE 0

\* one call of a member function of the peripheral, as the closures make it
PortCall(fn, data, len, result) ==
  [fn |-> fn, data |-> data, len |-> len, result |-> result]

\* AddSerial's writer that reports what the peripheral accepted instead of
\* the length
SerialWriterNoLength(buf, length) ==
  [port |-> <<PortCall("Write", SubSeq(buf, 1, length), length, 0)>>,
   result |-> 0]
\* AddSerial's writer: serial_port.Write(span(buffer, length)); return length;
SerialWriterLambda(buf, length) ==
  [port |-> <<PortCall("Write", SubSeq(buf, 1, length), length, 0)>>,
   result |-> length]

\* AddSerial's reader without its HasData test
SerialReaderNoHasData(answer, length) ==
  [port |-> <<PortCall("Read", <<>>, length, answer.count)>>,
   result |-> answer.count]
\* AddSerial's reader: if (serial_port.HasData()) return serial_port.Read(
\*   span(buf, length)); return 0;  (HasData's result is recorded as 1 / 0)
SerialReaderLambda(answer, length) ==
  IF answer.has_data
    THEN [port |-> <<PortCall("HasData", <<>>, 0, 1),
                     PortCall("Read", <<>>, length, answer.count)>>,
          result |-> answer.count]
    ELSE [port |-> <<PortCall("HasData", <<>>, 0, 0)>>, result |-> 0]

\* a write_function invoked with (file, buffer, length)
WriterCall(h, buf, length) ==
  IF h = SerialWriter THEN SerialWriterLambda(buf, length)
  ELSE [port |-> <<>>, result |-> WriterResult(h, length)]

\* a read_function invoked with a buffer of the given length, when its
\* source answers as given
ReaderCall(h, answer, length) ==
  IF h = SerialReader THEN SerialReaderLambda(answer, length)
  ELSE [port |-> <<>>, result |-> answer.count]

\* the byte a registered read_function stores when it has data
ReaderByte(h) ==
  IF h = "r1" THEN "A" ELSE IF h = SerialReader THEN "U" ELSE "B"

\* the counts a read_function may report when asked for length bytes;
\* DefaultNewlib's dummy_read_function always returns 0
ReaderCounts(h, length) ==
  IF h = "dummy_read_function" THEN {0} ELSE (0 - 1)..length

\* how the source behind a read_function may answer one call: whether it
\* has data (HasData of the peripheral; TRUE for every other source) and the
\* count its read reports; the peripheral's Read is not called without data
ReaderAnswers(h, length) ==
  IF h = SerialReader
    THEN {[has_data |-> FALSE, count |-> 0]}
         \cup {[has_data |-> TRUE, count |-> c] : c \in 0..length}
    ELSE {[has_data |-> TRUE, count |-> c] : c \in ReaderCounts(h, length)}

\* the destination after a reader that reports count bytes has run
ReaderFill(h, dest, count) ==
  [k \in 1..Len(dest) |-> IF k <= count THEN ReaderByte(h) ELSE dest[k]]

\* a caller's destination buffer of the given length, before the call
Blank(length) == [k \in 1..length |-> "?"]

WriteCalls(writers, file, source_buffer) ==
  [k \in 1..Len(writers) |->
     LET w == WriterCall(writers[k], source_buffer, Len(source_buffer))
     IN [h |-> writers[k], file |-> file, data |-> source_buffer,
         len |-> Len(source_buffer), result |-> w.result, port |-> w.port]]

----------------------------------------------------------------------------
(* Dispatch: fan-out on write, first success on read.                      *)

\* one call of Write: its arguments and the writer view it iterates
WriteCall(file, source_buffer) ==
  [file |-> file, data |-> source_buffer, to |-> GetWriter(Get)]

WriteReturnsLastResult(file, source_buffer) ==
  LET calls == WriteCalls(GetWriter(Get), file, source_buffer)
  IN [calls |-> calls,
      ret |-> IF calls = <<>> THEN 0 ELSE calls[Len(calls)].result]
\* SysCallManager::Write: for (auto writer : Get().GetWriter())
\*   writer(file, source_buffer, length); return length;
WriteOutcome(file, source_buffer) ==
  [calls |-> WriteCalls(GetWriter(Get), file, source_buffer),
   ret |-> Len(source_buffer)]

NewlibWriteReturnsLastResult(file, source_buffer) ==
  LET calls == WriteCalls(GetWriter(Get), file, source_buffer)
  IN [calls |-> calls,
      ret |-> IF calls = <<>> THEN 0 ELSE calls[Len(calls)].result]
\* _write of newlib.hpp: the same loop over NewlibManager::Get().GetWriter()
NewlibWriteOutcome(file, source_buffer) ==
  [calls |-> WriteCalls(GetWriter(Get), file, source_buffer),
   ret |-> Len(source_buffer)]

\* the loop of Read from its i-th reader on; s holds bytes_read, the
\* destination buffer and the reader invocations made so far
RECURSIVE ReadLoop(_, _, _, _, _)
ReadLoop(readers, counts, file, i, s) ==
  IF i > Len(readers) THEN s
  ELSE LET rc == ReaderCall(readers[i], counts[i], Len(s.dest))
           c == rc.result
           t == [bytes_read |-> c,
                 dest |-> ReaderFill(readers[i], s.dest, c),
                 calls |-> Append(s.calls,
                             [h |-> readers[i], file |-> file, data |-> <<>>,
                              len |-> Len(s.dest), result |-> c,
                              port |-> rc.port])]
       IN IF c > 0 THEN t ELSE ReadLoop(readers, counts, file, i + 1, t)

\* the loop without its break
RECURSIVE ReadLoopNoBreak(_, _, _, _, _)
ReadLoopNoBreak(readers, counts, file, i, s) ==
  IF i > Len(readers) THEN s
  ELSE LET rc == ReaderCall(readers[i], counts[i], Len(s.dest))
           c == rc.result
           t == [bytes_read |-> c,
                 dest |-> ReaderFill(readers[i], s.dest, c),
                 calls |-> Append(s.calls,
                             [h |-> readers[i], file |-> file, data |-> <<>>,
                              len |-> Len(s.dest), result |-> c,
                              port |-> rc.port])]
       IN ReadLoopNoBreak(readers, counts, file, i + 1, t)

ReadOutcomeNoBreak(counts, file, destination_buffer) ==
  ReadLoopNoBreak(GetReader(Get), counts, file, 1,
           [bytes_read |-> 0, dest |-> destination_buffer, calls |-> <<>>])
\* SysCallManager::Read: int bytes_read = 0; for (auto reader : ...)
\*   { bytes_read = reader(...); if (bytes_read > 0) break; } return bytes_read;
ReadOutcome(counts, file, destination_buffer) ==
  ReadLoop(GetReader(Get), counts, file, 1,
           [bytes_read |-> 0, dest |-> destination_buffer, calls |-> <<>>])

\* _read of newlib.hpp: the same loop over NewlibManager::Get().GetReader()
NewlibReadOutcome(counts, file, destination_buffer) ==
  ReadLoop(GetReader(Get), counts, file, 1,
           [bytes_read |-> 0, dest |-> destination_buffer, calls |-> <<>>])

\* the answers the sources behind the registered readers may give to one
\* Read of length bytes
ReaderResults(length) ==
  LET readers == GetReader(Get)
  IN {f \in [1..Len(readers) ->
               [has_data : BOOLEAN, count : (0 - 1)..length]] :
        \A k \in 1..Len(readers) : f[k] \in ReaderAnswers(readers[k], length)}

\* SysCallManager::Write(file, source_buffer, length)
Write(file, source_buffer) ==
  /\ shim = "syscall.hpp"
  /\ LET o == WriteOutcome(file, source_buffer)
     IN last' = [NoOp EXCEPT !.op = "Write", !.reg_id = Get, !.file = file,
                   !.data = source_buffer, !.len = Len(source_buffer),
                   !.ret = o.ret, !.calls = o.calls,
                   !.writes = <<WriteCall(file, source_buffer)>>]
  /\ UNCHANGED <<board, main_flow, heap_position, halted, shim, reg, platform_newlib, buffer, put_log, put_via, put_to, run, run_flushes,
                 flushed>>

\* _write(file, source_buffer, length)
NewlibWrite(file, source_buffer) ==
  /\ shim = "newlib.hpp"
  /\ LET o == NewlibWriteOutcome(file, source_buffer)
     IN last' = [NoOp EXCEPT !.op = "_write", !.reg_id = Get, !.file = file,
                   !.data = source_buffer, !.len = Len(source_buffer),
                   !.ret = o.ret, !.calls = o.calls]
  /\ UNCHANGED <<board, main_flow, heap_position, halted, shim, reg, platform_newlib, buffer, put_log, put_via, put_to, run, run_flushes,
                 flushed>>

\* SysCallManager::Read(file, destination_buffer, length)
Read(file, length) ==
  /\ shim = "syscall.hpp"
  /\ \E counts \in ReaderResults(length) :
       LET o == ReadOutcome(counts, file, Blank(length))
       IN last' = [NoOp EXCEPT !.op = "Read", !.reg_id = Get, !.file = file,
                     !.len = length, !.ret = o.bytes_read, !.calls = o.calls,
                     !.dest = o.dest]
  /\ UNCHANGED <<board, main_flow, heap_position, halted, shim, reg, platform_newlib, buffer, put_log, put_via, put_to, run, run_flushes,
                 flushed>>

\* _read(file, destination_buffer, length)
NewlibRead(file, length) ==
  /\ shim = "newlib.hpp"
  /\ \E counts \in ReaderResults(length) :
       LET o == NewlibReadOutcome(counts, file, Blank(length))
       IN last' = [NoOp EXCEPT !.op = "_read", !.reg_id = Get, !.file = file,
                     !.len = length, !.ret = o.bytes_read, !.calls = o.calls,
                     !.dest = o.dest]
  /\ UNCHANGED <<board, main_flow, heap_position, halted, shim, reg, platform_newlib, buffer, put_log, put_via, put_to, run, run_flushes,
                 flushed>>

Dispatch ==
  \/ \E f \in Files, b \in SeqsUpTo(Chars, MaxLen) : Write(f, b)
  \/ \E f \in Files, b \in SeqsUpTo(Chars, MaxLen) : NewlibWrite(f, b)
  \/ \E f \in Files, n \in 0..MaxLen : Read(f, n)
  \/ \E f \in Files, n \in 0..MaxLen : NewlibRead(f, n)

\* a program that brings up the platform registry and dispatches through
\* the manager
Next == Registration({"platform"}) \/ Dispatch

Spec == Init /\ [][Next]_vars

\* a program that registers handlers on every registry object
NextRegistry == Registration(RegIds)

SpecRegistry == Init /\ [][NextRegistry]_vars

----------------------------------------------------------------------------
(* The buffered stream: SysCallManager::stdio.                             *)

\* memory_resource.Capacity() of StaticMemoryResource<BUFSIZ>
Capacity == BUFSIZ

\* SysCallManager::stdio, the one FILE object of the shim
stdio == "stdio"

\* a table whose three entries are streams of their own
iobSeparateStreams == [entry \in 0..2 |-> <<"stdin", "stdout", "stderr">>[entry + 1]]

\* inline FILE * const __iob[3]: entry 0 is stdin, entry 1 stdout, entry 2
\* stderr, and each is &sjsu::SysCallManager::stdio
iob == [entry \in 0..2 |-> stdio]
StdinEntry == 0
StdoutEntry == 1
StderrEntry == 2

\* Flush that issues no Write when the buffer is empty
FlushSkipsEmpty(file, buf) ==
  IF buf = <<>>
    THEN [writes |-> <<>>, calls |-> <<>>, buffer |-> <<>>, ret |-> 0]
    ELSE [writes |-> <<WriteCall(file, buf)>>,
          calls |-> WriteOutcome(file, buf).calls, buffer |-> <<>>, ret |-> 0]

\* Flush that keeps the bytes a writer did not accept and reports the failure
FlushKeepsOnShortWrite(file, buf) ==
  LET calls == WriteOutcome(file, buf).calls
      short == \E k \in 1..Len(calls) : calls[k].result < Len(buf)
  IN [writes |-> <<WriteCall(file, buf)>>, calls |-> calls,
      buffer |-> IF short THEN buf ELSE <<>>,
      ret |-> IF short THEN 0 - 1 ELSE 0]

\* Flush: Write(file, buffer.data(), buffer.size()); buffer.clear(); return 0;
FlushOutcome(file, buf) ==
  [writes |-> <<WriteCall(file, buf)>>,
   calls |-> WriteOutcome(file, buf).calls,
   buffer |-> <<>>,
   ret |-> 0]

\* PutChar that appends without looking at the capacity
PutCharNoCapacityCheck(c, file) ==
  LET appended == Append(buffer, c)
      second == IF c = Newline THEN FlushOutcome(file, appended)
                ELSE [writes |-> <<>>, calls |-> <<>>, buffer |-> appended, ret |-> 0]
  IN [writes |-> second.writes, calls |-> second.calls,
      buffer |-> second.buffer, ret |-> 0]

\* PutChar that flushes as soon as the append fills the buffer
PutCharFlushWhenFilled(c, file) ==
  LET appended == Append(buffer, c)
      second == IF c = Newline \/ Len(appended) = Capacity
                  THEN FlushOutcome(file, appended)
                  ELSE [writes |-> <<>>, calls |-> <<>>, buffer |-> appended, ret |-> 0]
  IN [writes |-> second.writes, calls |-> second.calls,
      buffer |-> second.buffer, ret |-> 0]

\* PutChar that does not flush on a newline
PutCharNoNewlineFlush(c, file) ==
  LET first == IF Len(buffer) = Capacity THEN FlushOutcome(file, buffer)
               ELSE [writes |-> <<>>, calls |-> <<>>, buffer |-> buffer, ret |-> 0]
  IN [writes |-> first.writes, calls |-> first.calls,
      buffer |-> Append(first.buffer, c), ret |-> 0]

\* PutChar that tests for the newline before it appends
PutCharFlushBeforeAppend(c, file) ==
  LET first == IF Len(buffer) = Capacity \/ c = Newline
                 THEN FlushOutcome(file, buffer)
                 ELSE [writes |-> <<>>, calls |-> <<>>, buffer |-> buffer, ret |-> 0]
  IN [writes |-> first.writes, calls |-> first.calls,
      buffer |-> Append(first.buffer, c), ret |-> 0]

\* PutChar that refuses the byte when it finds the buffer full
PutCharOnDropsAtCapacity(buf, c, file) ==
  IF Len(buf) = Capacity
    THEN [writes |-> <<>>, calls |-> <<>>, buffer |-> buf, ret |-> 0 - 1]
    ELSE LET appended == Append(buf, c)
             second == IF c = Newline THEN FlushOutcome(file, appended)
                       ELSE [writes |-> <<>>, calls |-> <<>>,
                             buffer |-> appended, ret |-> 0]
         IN [writes |-> second.writes, calls |-> second.calls,
             buffer |-> second.buffer, ret |-> 0]

\* PutChar when the buffer holds buf: if (buffer.size() ==
\*   memory_resource.Capacity()) Flush(file); buffer.push_back(c);
\*   if (c == '\n') Flush(file); return 0;
PutCharOn(buf, c, file) ==
  LET first == IF Len(buf) = Capacity THEN FlushOutcome(file, buf)
               ELSE [writes |-> <<>>, calls |-> <<>>, buffer |-> buf, ret |-> 0]
      appended == Append(first.buffer, c)
      second == IF c = Newline THEN FlushOutcome(file, appended)
                ELSE [writes |-> <<>>, calls |-> <<>>, buffer |-> appended, ret |-> 0]
  IN [writes |-> first.writes \o second.writes,
      calls |-> first.calls \o second.calls,
      buffer |-> second.buffer,
      ret |-> 0]

\* SysCallManager::PutChar on SysCallManager::buffer
PutCharOutcome(c, file) == PutCharOn(buffer, c, file)

\* SysCallManager::PutChar(c, file), reached through the entry of __iob the
\* program names: putc(c, stdout), putc(c, stderr)
PutCharThrough(entry, c) ==
  /\ shim = "syscall.hpp"
  /\ Len(put_log) < MaxPut
  /\ LET o == PutCharOutcome(c, iob[entry])
     IN /\ buffer' = o.buffer
        /\ put_log' = Append(put_log, c)
        /\ put_via' = Append(put_via, entry)
        /\ put_to' = Append(put_to, GetWriter(Get))
        /\ run' = IF buffer = <<>> THEN <<c>> ELSE Append(run, c)
        /\ run_flushes' = (IF buffer = <<>> THEN <<>> ELSE run_flushes) \o o.writes
        /\ flushed' = flushed \o o.writes
        /\ last' = [NoOp EXCEPT !.op = "PutChar", !.reg_id = Get,
                      !.file = iob[entry], !.data = <<c>>, !.len = 1,
                      !.ret = o.ret, !.calls = o.calls, !.writes = o.writes]
  /\ UNCHANGED <<board, main_flow, heap_position, halted, shim, reg, platform_newlib>>

\* putchar(c): PutChar reached through stdout
PutChar(c) == PutCharThrough(StdoutEntry, c)

\* SysCallManager::Flush(file), reached through stdio
Flush ==
  /\ shim = "syscall.hpp"
  /\ Len(flushed) < MaxFlushed
  /\ LET o == FlushOutcome(stdio, buffer)
     IN /\ buffer' = o.buffer
        /\ run' = <<>>
        /\ run_flushes' = <<>>
        /\ flushed' = flushed \o o.writes
        /\ last' = [NoOp EXCEPT !.op = "Flush", !.reg_id = Get, !.file = stdio,
                      !.data = buffer, !.len = Len(buffer), !.ret = o.ret,
                      !.calls = o.calls, !.writes = o.writes]
  /\ UNCHANGED <<board, main_flow, heap_position, halted, shim, reg, platform_newlib, put_log, put_via, put_to>>

\* GetChar that reads into a byte it has not set to 0
GetCharUninitialised(counts, file) ==
  LET o == ReadOutcome(counts, file, Blank(1))
  IN [byte |-> o.dest[1], bytes_read |-> o.bytes_read, calls |-> o.calls,
      dest |-> o.dest]

\* GetChar: char byte = 0; Read(file, &byte, sizeof(byte)); return byte;
GetCharOutcome(counts, file) ==
  LET o == ReadOutcome(counts, file, <<NUL>>)
  IN [byte |-> o.dest[1], bytes_read |-> o.bytes_read, calls |-> o.calls,
      dest |-> o.dest]

\* SysCallManager::GetChar(file), reached through stdio
GetChar ==
  /\ shim = "syscall.hpp"
  /\ \E counts \in ReaderResults(1) :
       LET o == GetCharOutcome(counts, stdio)
       IN last' = [NoOp EXCEPT !.op = "GetChar", !.reg_id = Get, !.file = stdio,
                     !.len = 1, !.ret = o.bytes_read, !.calls = o.calls,
                     !.dest = o.dest, !.byte = o.byte]
  /\ UNCHANGED <<board, main_flow, heap_position, halted, shim, reg, platform_newlib, buffer, put_log, put_via, put_to, run, run_flushes,
                 flushed>>

Stream ==
  \/ \E c \in Chars : PutChar(c)
  \/ Flush
  \/ GetChar

\* the registry object o after AddWriter of each of ws, then AddReader of
\* each of rs; ok tells whether every one of the calls succeeded
RECURSIVE BringUp(_, _, _)
BringUp(o, ws, rs) ==
  IF ws # <<>>
    THEN LET p == push_back(o.write, o.write_cap, o.used,
                            kReserveBytes(o.callback_count), Head(ws))
         IN IF p.ok
              THEN BringUp([o EXCEPT !.write = p.vec, !.write_cap = p.cap,
                                     !.used = p.used], Tail(ws), rs)
              ELSE [ok |-> FALSE, o |-> o]
  ELSE IF rs # <<>>
    THEN LET p == push_back(o.read, o.read_cap, o.used,
                            kReserveBytes(o.callback_count), Head(rs))
         IN IF p.ok
              THEN BringUp([o EXCEPT !.read = p.vec, !.read_cap = p.cap,
                                     !.used = p.used], ws, Tail(rs))
              ELSE [ok |-> FALSE, o |-> o]
  ELSE [ok |-> TRUE, o |-> o]

\* a program built with syscall.hpp that has registered its handlers on
\* default_newlib, the registry Get() returns, and now uses stdio
InitStream ==
  /\ shim = "syscall.hpp"
  /\ \E ws \in SeqsUpTo(WriterIds, DefaultCallbackCount),
        rs \in SeqsUpTo(ReaderIds, DefaultCallbackCount) :
       LET b == BringUp(FreshRegistry("StaticSysCall", DefaultCallbackCount),
                        ws, rs)
       IN /\ b.ok
          /\ reg = [r \in RegIds |->
                      IF r = "default_newlib" THEN b.o
                      ELSE FreshRegistry("StaticSysCall", DefaultCallbackCount)]
  /\ platform_newlib = "default_newlib"
  /\ buffer = <<>>
  /\ put_log = <<>>
  /\ put_via = <<>>
  /\ put_to = <<>>
  /\ BoardAtReset
  /\ run = <<>>
  /\ run_flushes = <<>>
  /\ flushed = <<>>
  /\ heap_position = 0
  /\ halted = FALSE
  /\ main_flow = MainIdle
  /\ last = [op |-> "none", reg_id |-> "none", file |-> "none", data |-> <<>>,
             len |-> 0, ret |-> 0, exception |-> "none", calls |-> <<>>,
             dest |-> <<>>, writes |-> <<>>, byte |-> NUL, pre_reg |-> reg,
             pre_buffer |-> <<>>, ptr |-> nullptr, pre_heap |-> 0,
             fault |-> "none"]

NextStream == Stream

SpecStream == InitStream /\ [][NextStream]_vars

----------------------------------------------------------------------------
(* Heap extension: _sbrk of newlib.hpp.                                    *)

\* &heap_end, as an offset from the start of the built-in heap region
heap_end == HeapSize

\* what a registered sbrk_function returns: a block of its own region, or
\* nullptr; DefaultNewlib's dummy_sbrk_function always returns nullptr
AllocatorResult(h, gives) ==
  IF gives /\ h # "dummy_sbrk_function" THEN [region |-> h, offset |-> 0]
  ELSE nullptr

\* the loop without its break: every allocator is invoked and the last
\* result stands
RECURSIVE SbrkLoopNoBreak(_, _, _, _, _)
SbrkLoopNoBreak(allocators, gives, increment, i, s) ==
  IF i > Len(allocators) THEN s
  ELSE LET p == AllocatorResult(allocators[i], gives[i])
           t == [new_memory_location |-> p,
                 calls |-> Append(s.calls, [h |-> allocators[i],
                                            increment |-> increment,
                                            result |-> p])]
       IN SbrkLoopNoBreak(allocators, gives, increment, i + 1, t)

\* the loop of _sbrk from its i-th allocator on; s holds new_memory_location
\* and the allocator invocations made so far
RECURSIVE SbrkLoop(_, _, _, _, _)
SbrkLoop(allocators, gives, increment, i, s) ==
  IF i > Len(allocators) THEN s
  ELSE LET p == AllocatorResult(allocators[i], gives[i])
           t == [new_memory_location |-> p,
                 calls |-> Append(s.calls, [h |-> allocators[i],
                                            increment |-> increment,
                                            result |-> p])]
       IN IF p # nullptr THEN t
          ELSE SbrkLoop(allocators, gives, increment, i + 1, t)

\* _sbrk that hands out the built-in region without looking at heap_end
SbrkNoHeapEndCheck(gives, increment) ==
  LET l == SbrkLoop(GetHeapAllocators(Get), gives, increment, 1,
                    [new_memory_location |-> nullptr, calls |-> <<>>])
  IN IF l.new_memory_location = nullptr
       THEN [ptr |-> [region |-> "heap", offset |-> heap_position],
             calls |-> l.calls, heap_position |-> heap_position + increment]
       ELSE [ptr |-> l.new_memory_location, calls |-> l.calls,
             heap_position |-> heap_position]

\* _sbrk(increment): the first non-null result of the registered allocators;
\* without one, if ((heap_position + increment) <= &heap_end) the old
\* heap_position, which is then advanced by increment; otherwise nullptr
SbrkOutcome(gives, increment) ==
  LET l == SbrkLoop(GetHeapAllocators(Get), gives, increment, 1,
                    [new_memory_location |-> nullptr, calls |-> <<>>])
  IN IF l.new_memory_location = nullptr
       THEN IF heap_position + increment <= heap_end
              THEN [ptr |-> [region |-> "heap", offset |-> heap_position],
                    calls |-> l.calls,
                    heap_position |-> heap_position + increment]
              ELSE [ptr |-> nullptr, calls |-> l.calls,
                    heap_position |-> heap_position]
       ELSE [ptr |-> l.new_memory_location, calls |-> l.calls,
             heap_position |-> heap_position]

\* _sbrk(increment), called by the C library's allocator
Sbrk(increment) ==
  /\ shim = "newlib.hpp"
  /\ heap_position + increment >= MinHeapPosition
  /\ \E gives \in [1..Len(GetHeapAllocators(Get)) -> BOOLEAN] :
       LET o == SbrkOutcome(gives, increment)
       IN /\ heap_position' = o.heap_position
          /\ last' = [NoOp EXCEPT !.op = "_sbrk", !.reg_id = Get,
                        !.len = increment, !.calls = o.calls, !.ptr = o.ptr]
  /\ UNCHANGED <<board, main_flow, halted, shim, reg, platform_newlib, buffer, put_log, put_via, put_to, run,
                 run_flushes, flushed>>

\* the allocators a program with two memory regions of its own registers
HeapAllocatorIds == AllocatorIds \cup {"a2"}

\* a program built with newlib.hpp whose C library extends the heap
InitHeap == Init /\ shim = "newlib.hpp"

NextHeap ==
  \/ \E r \in RegIds : Set(r)
  \/ \E h \in HeapAllocatorIds : AddHeapAllocators("platform", h)
  \/ \E increment \in (0 - MaxIncrement)..MaxIncrement : Sbrk(increment)

SpecHeap == InitHeap /\ [][NextHeap]_vars

----------------------------------------------------------------------------
(* Termination: HandleExceptionPointer and _exit.                          *)
(* A text is a sequence of bytes; a run of bytes of a message that holds   *)
(* no newline, and each colour code, is written as one byte.               *)

\* the return codes passed to _exit, and their decimal text
ExitCodes == {0 - 1, 0, 1}
CodeText(code) == IF code < 0 THEN "-1" ELSE IF code = 0 THEN "0" ELSE "1"

\* what an exception_ptr may hold: nothing, an object of a class derived
\* from std::exception, an sjsu::Exception, or a value of any other type
FaultClasses == {"none", "std::exception", "sjsu::Exception", "other"}

\* e.what()
WhatText == "what()"

\* the format with its fields replaced, in order, by the arguments
RECURSIVE Substitute(_, _, _)
Substitute(format, fields, args) ==
  IF format = <<>> THEN <<>>
  ELSE IF Head(format) \in fields /\ args # <<>>
    THEN <<Head(args)>> \o Substitute(Tail(format), fields, Tail(args))
    ELSE <<Head(format)>> \o Substitute(Tail(format), fields, args)

\* fmt::print(fmt::runtime(format), args...): the replacement fields are {}
FmtFormat(format, args) == Substitute(format, {"{}"}, args)

\* printf(format, args...): the conversion specifications are %d and %s
PrintfFormat(format, args) == Substitute(format, {"%d", "%s"}, args)

\* Decorators::print_prefix, critical_prefix: location, uptime and a colour
print_prefix == <<"file:line:function:0s> ", "SJ2_HI_BOLD_WHITE">>
critical_prefix == <<"file:line:function:0s> ", "SJ2_RED">>

\* sjsu::log::Print(format, args...): prefix, fmt::print, suffix
LogPrint(format, args) ==
  print_prefix \o FmtFormat(format, args) \o <<"SJ2_COLOR_RESET">>

\* sjsu::log::Critical(format, args...): prefix, fmt::print, suffix
Critical(format, args) ==
  critical_prefix \o FmtFormat(format, args) \o <<"SJ2_COLOR_RESET">>

\* the format string of _exit's report, with the given field for the code
ExitFormat(return_code, field) ==
  <<Newline, "SJ2_BOLD_WHITE",
    IF return_code >= 0 THEN "SJ2_BACKGROUND_GREEN" ELSE "SJ2_BACKGROUND_RED",
    "Program Returned Exit Code: ", field, Newline, "SJ2_COLOR_RESET">>

\* the catch clauses of HandleExceptionPointer, in the order they are written
CatchClauses == <<"std::exception", "sjsu::Exception", "...">>

\* whether a catch clause catches a fault of class e; sjsu::Exception is
\* taken not to derive from std::exception
Catches(clause, e) == clause = "..." \/ clause = e

\* the first clause, in order, that catches e
Caught(e) ==
  LET k == CHOOSE k \in 1..Len(CatchClauses) :
             /\ Catches(CatchClauses[k], e)
             /\ \A j \in 1..(k - 1) : ~Catches(CatchClauses[j], e)
  IN CatchClauses[k]

\* sjsu::Exception::Print(): the structured message of a typed fault
ExceptionPrint == <<"sjsu::Exception::Print()">>

\* the C library's file descriptors behind printf and behind puts
stdout == "fd 1"
fd0 == "fd 0"

\* one output call: the stream and the bytes
Out(file, data) == [file |-> file, data |-> data]

\* puts(str): _write(0, str, strlen(str)); _write(0, "\n", 1);
puts(str) == <<Out(fd0, str), Out(fd0, <<Newline>>)>>

\* HandleExceptionPointer(exception_pointer): the output calls it makes, for
\* syscall.hpp through sjsu::log and stdio, for newlib.hpp through printf
\* and puts
FaultOutput(e) ==
  IF shim = "syscall.hpp"
    THEN <<Out(stdio, Critical(<<"Uncaught exception: ">>, <<>>))>>
         \o (IF e = "none" THEN <<>>
             ELSE IF Caught(e) = "std::exception"
               THEN <<Out(stdio, Critical(<<"std::exception(", "%s", ")", Newline>>,
                                          <<WhatText>>))>>
             ELSE IF Caught(e) = "sjsu::Exception"
               THEN <<Out(stdio, ExceptionPrint)>>
             ELSE <<Out(stdio, Critical(<<"Unknown...", Newline>>, <<>>))>>)
    ELSE <<Out(stdout, <<"SJ2_BACKGROUND_RED", "Uncaught exception: ">>)>>
         \o (IF e = "none" THEN <<>>
             ELSE IF Caught(e) = "std::exception"
               THEN <<Out(stdout,
                          PrintfFormat(<<"std::exception(", "%s", ")", Newline>>,
                                       <<WhatText>>))>>
             ELSE IF Caught(e) = "sjsu::Exception"
               THEN <<Out(stdout, ExceptionPrint)>>
             ELSE <<Out(stdout, <<"Unknown...", Newline>>)>>)
         \o puts(<<"SJ2_COLOR_RESET">>)

\* _exit's report of the return code
ReportOutput(return_code) ==
  IF shim = "syscall.hpp"
    THEN <<Out(stdio, LogPrint(ExitFormat(return_code, "{}"),
                               <<CodeText(return_code)>>))>>
    ELSE <<Out(stdout, PrintfFormat(ExitFormat(return_code, "%d"),
                                    <<CodeText(return_code)>>))>>

\* _exit that handles the exception pointer before it reports the code
ExitFaultFirst(return_code, e) == FaultOutput(e) \o ReportOutput(return_code)
\* _exit(return_code): the report, then
\* HandleExceptionPointer(std::current_exception())
ExitOutput(return_code, e) == ReportOutput(return_code) \o FaultOutput(e)

\* s after PutChar(c) had the outcome o
PutStep(s, c, o) ==
  [buffer |-> o.buffer,
   writes |-> s.writes \o o.writes,
   calls |-> s.calls \o o.calls,
   run |-> IF s.buffer = <<>> THEN <<c>> ELSE Append(s.run, c),
   run_flushes |-> (IF s.buffer = <<>> THEN <<>> ELSE s.run_flushes)
                   \o o.writes]

\* the bytes of text given to PutChar one after the other; s holds the
\* buffer, the Write calls and writer invocations made, and the run; the
\* buffer is looked at after every byte, it never outgrows its capacity
RECURSIVE PutString(_, _, _)
PutString(s, text, file) ==
  IF text = <<>> THEN s
  ELSE LET t == PutStep(s, Head(text), PutCharOn(s.buffer, Head(text), file))
       IN IF Len(t.buffer) <= Capacity THEN PutString(t, Tail(text), file)
          ELSE t

\* the effect of output calls: for syscall.hpp every byte goes through
\* PutChar of stdio; for newlib.hpp each call is one _write
Emit(outs) ==
  LET text == Flatten([k \in 1..Len(outs) |-> outs[k].data])
  IN IF shim = "syscall.hpp"
       THEN LET o == PutString([buffer |-> buffer, writes |-> <<>>,
                                calls |-> <<>>, run |-> run,
                                run_flushes |-> run_flushes], text,
                               iob[StdoutEntry])
            IN [text |-> text, buffer |-> o.buffer, put |-> text,
                writes |-> o.writes, calls |-> o.calls, run |-> o.run,
                run_flushes |-> o.run_flushes, flushed |-> o.writes]
       ELSE [text |-> text, buffer |-> buffer, put |-> <<>>,
             writes |-> [k \in 1..Len(outs) |->
                           [file |-> outs[k].file, data |-> outs[k].data,
                            to |-> GetWriter(Get)]],
             calls |-> Flatten([k \in 1..Len(outs) |->
                         NewlibWriteOutcome(outs[k].file, outs[k].data).calls]),
             run |-> run, run_flushes |-> run_flushes, flushed |-> <<>>]

\* SysCallManager::HandleExceptionPointer / sjsu::HandleExceptionPointer,
\* called by the program; every catch clause returns normally
HandleExceptionPointer(e) ==
  /\ LET o == Emit(FaultOutput(e))
     IN /\ buffer' = o.buffer
        /\ put_log' = put_log \o o.put
        /\ put_via' = put_via \o [k \in 1..Len(o.put) |-> StdoutEntry]
        /\ put_to' = put_to \o [k \in 1..Len(o.put) |-> GetWriter(Get)]
        /\ run' = o.run
        /\ run_flushes' = o.run_flushes
        /\ flushed' = flushed \o o.flushed
        /\ last' = [NoOp EXCEPT !.op = "HandleExceptionPointer", !.reg_id = Get,
                      !.fault = e, !.data = o.text, !.writes = o.writes,
                      !.calls = o.calls]
  /\ UNCHANGED <<board, main_flow, heap_position, halted, shim, reg, platform_newlib>>

\* _exit(return_code) up to its final loop
Exit(return_code, e) ==
  /\ LET o == Emit(ExitOutput(return_code, e))
     IN /\ buffer' = o.buffer
        /\ put_log' = put_log \o o.put
        /\ put_via' = put_via \o [k \in 1..Len(o.put) |-> StdoutEntry]
        /\ put_to' = put_to \o [k \in 1..Len(o.put) |-> GetWriter(Get)]
        /\ run' = o.run
        /\ run_flushes' = o.run_flushes
        /\ flushed' = flushed \o o.flushed
        /\ last' = [NoOp EXCEPT !.op = "_exit", !.reg_id = Get,
                      !.len = return_code, !.fault = e, !.data = o.text,
                      !.writes = o.writes, !.calls = o.calls]
  /\ halted' = TRUE
  /\ UNCHANGED <<board, main_flow, heap_position, shim, reg, platform_newlib>>

\* one turn of _exit's loop: while (1) { continue; }
Halt ==
  /\ halted
  /\ UNCHANGED vars

\* a program whose registries may hold the console writer w1 and whose
\* platform start-up may have installed the platform registry with Set
InitExit ==
  /\ shim \in Shims
  /\ \E ws \in SeqsUpTo({"w1"}, 1), pws \in SeqsUpTo({"w1"}, 1) :
       LET d == IF shim = "syscall.hpp"
                  THEN BringUp(FreshRegistry("StaticSysCall", DefaultCallbackCount),
                               ws, <<>>)
                  ELSE [ok |-> ws = <<>>, o |-> FreshRegistry("DefaultNewlib", 0)]
           b == BringUp(FreshRegistry(IF shim = "syscall.hpp" THEN "StaticSysCall"
                                      ELSE "StaticNewlib", DefaultCallbackCount),
                        pws, <<>>)
       IN /\ d.ok
          /\ b.ok
          /\ reg = [r \in RegIds |-> IF r = "default_newlib" THEN d.o ELSE b.o]
  /\ platform_newlib \in RegIds
  /\ buffer = <<>>
  /\ put_log = <<>>
  /\ put_via = <<>>
  /\ put_to = <<>>
  /\ BoardAtReset
  /\ run = <<>>
  /\ run_flushes = <<>>
  /\ flushed = <<>>
  /\ heap_position = 0
  /\ halted = FALSE
  /\ main_flow = MainIdle
  /\ last = [op |-> "none", reg_id |-> "none", file |-> "none", data |-> <<>>,
             len |-> 0, ret |-> 0, exception |-> "none", calls |-> <<>>,
             dest |-> <<>>, writes |-> <<>>, byte |-> NUL, pre_reg |-> reg,
             pre_buffer |-> <<>>, ptr |-> nullptr, pre_heap |-> 0,
             fault |-> "none"]

\* the program runs until it calls _exit, which never returns
NextExit ==
  \/ ~halted /\ Len(put_log) < MaxPutBeforeExit /\ \E c \in Chars : PutChar(c)
  \/ ~halted /\ Flush
  \/ ~halted /\ Len(put_log) < MaxPutBeforeExit
             /\ \E e \in FaultClasses : HandleExceptionPointer(e)
  \/ ~halted /\ \E return_code \in ExitCodes, e \in FaultClasses :
                  Exit(return_code, e)
  \/ Halt

SpecExit == InitExit /\ [][NextExit]_vars

----------------------------------------------------------------------------
(* The manager between two registries that both hold handlers.             *)

\* a program whose registries were both brought up before it starts to
\* switch between them with Set and to dispatch through the manager; the
\* default registry holds at most the writer w1 and the reader r1, the
\* platform registry is one handler larger than the default one
InitFacade ==
  /\ shim \in Shims
  /\ \E ws \in SeqsUpTo({"w1"}, 1),
        rs \in SeqsUpTo({"r1"}, 1),
        pws \in SeqsUpTo(WriterIds, DefaultCallbackCount),
        prs \in SeqsUpTo(ReaderIds, DefaultCallbackCount) :
       LET d == IF shim = "syscall.hpp"
                  THEN BringUp(FreshRegistry("StaticSysCall", DefaultCallbackCount),
                               ws, rs)
                  ELSE [ok |-> ws = <<>> /\ rs = <<>>,
                        o |-> FreshRegistry("DefaultNewlib", 0)]
           b == BringUp(FreshRegistry(IF shim = "syscall.hpp" THEN "StaticSysCall"
                                      ELSE "StaticNewlib",
                                    DefaultCallbackCount + 1),
                        pws, prs)
       IN /\ d.ok
          /\ b.ok
          /\ reg = [r \in RegIds |-> IF r = "default_newlib" THEN d.o ELSE b.o]
  /\ platform_newlib = "default_newlib"
  /\ buffer = <<>>
  /\ put_log = <<>>
  /\ put_via = <<>>
  /\ put_to = <<>>
  /\ BoardAtReset
  /\ run = <<>>
  /\ run_flushes = <<>>
  /\ flushed = <<>>
  /\ heap_position = 0
  /\ halted = FALSE
  /\ main_flow = MainIdle
  /\ last = [op |-> "none", reg_id |-> "none", file |-> "none", data |-> <<>>,
             len |-> 0, ret |-> 0, exception |-> "none", calls |-> <<>>,
             dest |-> <<>>, writes |-> <<>>, byte |-> NUL, pre_reg |-> reg,
             pre_buffer |-> <<>>, ptr |-> nullptr, pre_heap |-> 0,
             fault |-> "none"]

NextFacade ==
  \/ \E r \in RegIds : Set(r)
  \/ Dispatch
  \/ GetChar

SpecFacade == InitFacade /\ [][NextFacade]_vars

----------------------------------------------------------------------------
(* The standard-stream table in front of the buffered stream.              *)

\* a program built with syscall.hpp whose console writer w1 is registered on
\* the registry Get() returns, and which prints through stdout and stderr
InitTable ==
  /\ InitStream
  /\ GetWriter(Get) = <<"w1">>
  /\ GetReader(Get) = <<>>

NextTable ==
  \/ \E entry \in {StdoutEntry, StderrEntry}, c \in Chars :
       PutCharThrough(entry, c)
  \/ Flush

SpecTable == InitTable /\ [][NextTable]_vars

----------------------------------------------------------------------------
(* Gpio: the helper functions of the interface, and PinSettings_t.         *)

\* PinSettings_t::Resistor
Resistors == {"kNone", "kPullDown", "kPullUp"}

\* the values of PinSettings_t; function is a uint8_t code, kept small
PinSettings_t ==
  [function : 0..MaxFunctionCode, resistor : Resistors,
   open_drain : BOOLEAN, as_analog : BOOLEAN]

\* one invocation of a virtual method of the interface
VirtualCall(method, argument) == [method |-> method, argument |-> argument]

\* SetLow that drives the pin high
SetLowSetsHigh == <<VirtualCall("Set", "State::kHigh")>>

\* the bodies of the helpers: the virtual methods each one invokes, in order
SetHighBody == <<VirtualCall("Set", "State::kHigh")>>
SetLowBody == <<VirtualCall("Set", "State::kLow")>>
SetAsInputBody == <<VirtualCall("SetDirection", "Direction::kInput")>>
SetAsOutputBody == <<VirtualCall("SetDirection", "Direction::kOutput")>>

\* a helper called on the Gpio object: it runs its body and touches nothing
\* of the object itself
Helper(op, body) ==
  /\ gpio' = [gpio EXCEPT !.op = op, !.on = "gpio", !.calls = body,
                          !.pre = gpio.settings,
                          !.pre_returned = gpio.returned]
  /\ UNCHANGED <<io, build, memory>>

SetHigh == Helper("SetHigh", SetHighBody)
SetLow == Helper("SetLow", SetLowBody)
SetAsInput == Helper("SetAsInput", SetAsInputBody)
SetAsOutput == Helper("SetAsOutput", SetAsOutputBody)

\* PullDown that also gives up the open-drain mode
PullDownClearsOpenDrain(s) ==
  [s EXCEPT !.resistor = "kPullDown", !.open_drain = FALSE]

\* PullUp / PullDown / Floating on the PinSettings_t value s: resistor = ...;
PullUpOutcome(s) == [s EXCEPT !.resistor = "kPullUp"]
PullDownOutcome(s) == [s EXCEPT !.resistor = "kPullDown"]
FloatingOutcome(s) == [s EXCEPT !.resistor = "kNone"]

\* a settings call made on gpio.settings, or on the PinSettings_t value the
\* previous call returned (settings.PullUp().Floating()); the call changes
\* the object it is made on and returns *this by value, a copy
SettingsCall(op, on, after) ==
  /\ gpio' = [gpio EXCEPT !.op = op, !.on = on, !.calls = <<>>,
                          !.pre = gpio.settings,
                          !.pre_returned = gpio.returned,
                          !.settings = IF on = "settings" THEN after ELSE @,
                          !.returned = after]
  /\ UNCHANGED <<io, build, memory>>

\* the object a settings call is made on
Target(on) == IF on = "settings" THEN gpio.settings ELSE gpio.returned

PullUp(on) == SettingsCall("PullUp", on, PullUpOutcome(Target(on)))
PullDown(on) == SettingsCall("PullDown", on, PullDownOutcome(Target(on)))
Floating(on) == SettingsCall("Floating", on, FloatingOutcome(Target(on)))

\* the I/O shim of a program that does not use it
IoAtReset ==
  /\ InitShim
  /\ shim = "syscall.hpp"
  /\ reg["platform"].callback_count = DefaultCallbackCount

\* a Gpio object whose settings the program has assigned
InitGpio ==
  /\ \E settings \in PinSettings_t : gpio = GpioIdle(settings)
  /\ build = BuildIdle(host)
  /\ memory = MemoryIdle("ram.hpp:93", <<>>, <<>>, <<>>)
  /\ IoAtReset

NextGpio ==
  \/ SetHigh
  \/ SetLow
  \/ SetAsInput
  \/ SetAsOutput
  \/ \E on \in {"settings", "returned"} : PullUp(on)
  \/ \E on \in {"settings", "returned"} : PullDown(on)
  \/ \E on \in {"settings", "returned"} : Floating(on)

SpecGpio == InitGpio /\ [][NextGpio]_vars

----------------------------------------------------------------------------
(* build_info: kPlatform and IsPlatform.                                   *)

\* the platform names, each as the sequence of its characters
lpc40xx == <<"l", "p", "c", "4", "0", "x", "x">>
lpc17xx == <<"l", "p", "c", "1", "7", "x", "x">>
lpc == <<"l", "p", "c">>
stm32f10x == <<"s", "t", "m", "3", "2", "f", "1", "0", "x">>
stm == <<"s", "t", "m">>
linux == <<"l", "i", "n", "u", "x">>
no_platform == <<"u", "n", "k", "n", "o", "w", "n">>

\* PLATFORM_STRING: STR(PLATFORM) of the build, "unknown" without PLATFORM
Platforms == {host, lpc40xx, lpc17xx, stm32f10x, linux, no_platform}

\* the texts a program asks IsPlatform about: the names of the tests, every
\* beginning and every ending of a platform name, and a name with a
\* character more
Asked ==
  {lpc, stm}
  \cup UNION {{SubSeq(p, 1, n) : n \in 0..Len(p)} : p \in Platforms}
  \cup UNION {{SubSeq(p, n, Len(p)) : n \in 1..Len(p)} : p \in Platforms}
  \cup {Append(p, "x") : p \in Platforms}

\* std::string_view::starts_with(x): size() >= x.size() and the first
\* x.size() characters compare equal to x
starts_with(text, x) ==
  /\ Len(text) >= Len(x)
  /\ \A k \in 1..Len(x) : text[k] = x[k]

\* IsPlatform that compares the whole name
IsPlatformEquals(platform) == build.kPlatform = platform

\* IsPlatform(platform): return kPlatform.starts_with(platform);
IsPlatformOutcome(platform) == starts_with(build.kPlatform, platform)

IsPlatform(platform) ==
  /\ build' = [build EXCEPT !.op = "IsPlatform", !.platform = platform,
                            !.ret = IsPlatformOutcome(platform)]
  /\ UNCHANGED <<io, gpio, memory>>

\* a build for any of the platforms
InitBuild ==
  /\ \E kPlatform \in Platforms : build = BuildIdle(kPlatform)
  /\ gpio = GpioIdle(PinSettingsDefault)
  /\ memory = MemoryIdle("ram.hpp:93", <<>>, <<>>, <<>>)
  /\ IoAtReset

NextBuild == \E platform \in Asked : IsPlatform(platform)

SpecBuild == InitBuild /\ [][NextBuild]_vars

----------------------------------------------------------------------------
(* ram.hpp: InitializeDataSection and InitializeBssSection.                *)
(* The repository holds two definitions of the pair, for different         *)
(* platforms: "ram.hpp:93" copies and clears with memcpy and memset,       *)
(* "ram.hpp:63" has both bodies commented out.  A program is built with    *)
(* one of them.                                                            *)

RamHeaders == {"ram.hpp:63", "ram.hpp:93"}

\* the values a byte of a section holds: 0 and 0xAA
Bytes == {0, 170}

\* the contents a section of size bytes may hold
Section(size) == [1..size -> Bytes]

\* memcpy(dest, src, n): the first n bytes of dest become those of src
memcpy(dest, src, n) ==
  [k \in 1..Len(dest) |-> IF k <= n THEN src[k] ELSE dest[k]]

\* memset(dest, value, n): the first n bytes of dest become value
memset(dest, value, n) ==
  [k \in 1..Len(dest) |-> IF k <= n THEN value ELSE dest[k]]

\* &_data_size and &_bss_size: the sizes the linker script gives the sections
data_size == Len(memory.data_load)
bss_size == Len(memory.bss)

\* InitializeDataSection():
\*   memcpy(&_data, &_data_load, reinterpret_cast<size_t>(&_data_size));
\* or nothing
InitializeDataSectionOutcome ==
  IF memory.ram_hpp = "ram.hpp:93"
    THEN memcpy(memory.data, memory.data_load, data_size)
    ELSE memory.data

\* InitializeBssSection():
\*   memset(&_bss, 0UL, reinterpret_cast<size_t>(&_bss_size));
\* or nothing
InitializeBssSectionOutcome ==
  IF memory.ram_hpp = "ram.hpp:93"
    THEN memset(memory.bss, 0, bss_size)
    ELSE memory.bss

\* the sections as a call finds them
Sections ==
  [data_load |-> memory.data_load, data |-> memory.data, bss |-> memory.bss]

InitializeDataSection ==
  /\ memory' = [memory EXCEPT !.op = "InitializeDataSection",
                              !.pre = Sections,
                              !.data = InitializeDataSectionOutcome]
  /\ UNCHANGED <<io, gpio, build>>

InitializeBssSection ==
  /\ memory' = [memory EXCEPT !.op = "InitializeBssSection",
                              !.pre = Sections,
                              !.bss = InitializeBssSectionOutcome]
  /\ UNCHANGED <<io, gpio, build>>

\* the sections at reset: the load region holds the image, RAM holds anything
InitRam ==
  /\ \E ram_hpp \in RamHeaders, size \in 1..MaxSectionSize,
        zsize \in 1..MaxSectionSize :
       \E data_load \in Section(size), data \in Section(size),
          bss \in Section(zsize) :
         memory = MemoryIdle(ram_hpp, data_load, data, bss)
  /\ gpio = GpioIdle(PinSettingsDefault)
  /\ build = BuildIdle(host)
  /\ IoAtReset

NextRam ==
  \/ InitializeDataSection
  \/ InitializeBssSection

SpecRam == InitRam /\ [][NextRam]_vars

----------------------------------------------------------------------------
(* The stream while the program changes its handlers.                      *)

\* a program built with syscall.hpp whose default registry holds the console
\* writer w1 and whose platform registry, one handler larger, is still empty
InitSwitch ==
  /\ shim = "syscall.hpp"
  /\ reg = [r \in RegIds |->
              IF r = "default_newlib"
                THEN BringUp(FreshRegistry("StaticSysCall", DefaultCallbackCount),
                             <<"w1">>, <<>>).o
                ELSE FreshRegistry("StaticSysCall", DefaultCallbackCount + 1)]
  /\ platform_newlib = "default_newlib"
  /\ buffer = <<>>
  /\ put_log = <<>>
  /\ put_via = <<>>
  /\ put_to = <<>>
  /\ BoardAtReset
  /\ run = <<>>
  /\ run_flushes = <<>>
  /\ flushed = <<>>
  /\ heap_position = 0
  /\ halted = FALSE
  /\ main_flow = MainIdle
  /\ last = [op |-> "none", reg_id |-> "none", file |-> "none", data |-> <<>>,
             len |-> 0, ret |-> 0, exception |-> "none", calls |-> <<>>,
             dest |-> <<>>, writes |-> <<>>, byte |-> NUL, pre_reg |-> reg,
             pre_buffer |-> <<>>, ptr |-> nullptr, pre_heap |-> 0,
             fault |-> "none"]

\* the program up to the first Write its stream makes
NextSwitch ==
  \/ flushed = <<>> /\ \E r \in RegIds : Set(r)
  \/ flushed = <<>> /\ \E h \in WriterIds : AddWriter("platform", h)
  \/ flushed = <<>> /\ \E c \in Chars : PutChar(c)
  \/ flushed = <<>> /\ Flush

SpecSwitch == InitSwitch /\ [][NextSwitch]_vars

----------------------------------------------------------------------------
(* PutChar called from an interrupt handler while the main flow is inside  *)
(* PutChar: the main flow runs PutChar one statement at a time, and the    *)
(* handler's call runs to completion between two of those statements.      *)

\* the first statement of PutChar, on a buffer that holds buf:
\*   if (buffer.size() == memory_resource.Capacity()) Flush(file);
PutCharCapacityCheck(buf, file) ==
  IF Len(buf) = Capacity THEN FlushOutcome(file, buf)
  ELSE [writes |-> <<>>, calls |-> <<>>, buffer |-> buf, ret |-> 0]

\* the second statement: buffer.push_back(c); the vector allocates from the
\* default resource, so the push succeeds whatever the size
PutCharPushBack(buf, c) == Append(buf, c)

\* the third statement: if (c == '\n') Flush(file);
PutCharNewlineCheck(buf, c, file) ==
  IF c = Newline THEN FlushOutcome(file, buf)
  ELSE [writes |-> <<>>, calls |-> <<>>, buffer |-> buf, ret |-> 0]

\* the main flow enters PutChar(c, stdout) and runs its first statement
MainCapacityCheck(c) ==
  /\ shim = "syscall.hpp"
  /\ main_flow.pc = "idle"
  /\ Len(put_log) < MaxPut
  /\ LET o == PutCharCapacityCheck(buffer, iob[StdoutEntry])
     IN /\ buffer' = o.buffer
        /\ put_log' = Append(put_log, c)
        /\ put_via' = Append(put_via, StdoutEntry)
        /\ put_to' = Append(put_to, GetWriter(Get))
        /\ run' = IF buffer = <<>> THEN <<c>> ELSE Append(run, c)
        /\ run_flushes' = (IF buffer = <<>> THEN <<>> ELSE run_flushes) \o o.writes
        /\ flushed' = flushed \o o.writes
        /\ main_flow' = [main_flow EXCEPT !.pc = "push_back", !.c = c,
                                          !.file = iob[StdoutEntry]]
        /\ last' = [NoOp EXCEPT !.op = "PutChar: capacity check", !.reg_id = Get,
                      !.file = iob[StdoutEntry], !.data = <<c>>, !.len = 1,
                      !.calls = o.calls, !.writes = o.writes]
  /\ UNCHANGED <<board, heap_position, halted, shim, reg, platform_newlib>>

\* the main flow runs the second statement of its PutChar
MainPushBack ==
  /\ main_flow.pc = "push_back"
  /\ buffer' = PutCharPushBack(buffer, main_flow.c)
  /\ main_flow' = [main_flow EXCEPT !.pc = "newline_check"]
  /\ last' = [NoOp EXCEPT !.op = "PutChar: push_back", !.reg_id = Get,
                !.file = main_flow.file, !.data = <<main_flow.c>>, !.len = 1]
  /\ UNCHANGED <<board, heap_position, halted, shim, reg, platform_newlib,
                 put_log, put_via, put_to, run, run_flushes, flushed>>

\* the main flow runs the third statement of its PutChar and returns 0
MainNewlineCheck ==
  /\ main_flow.pc = "newline_check"
  /\ LET o == PutCharNewlineCheck(buffer, main_flow.c, main_flow.file)
     IN /\ buffer' = o.buffer
        /\ run_flushes' = run_flushes \o o.writes
        /\ flushed' = flushed \o o.writes
        /\ last' = [NoOp EXCEPT !.op = "PutChar: newline check", !.reg_id = Get,
                      !.file = main_flow.file, !.data = <<main_flow.c>>,
                      !.len = 1, !.ret = 0, !.calls = o.calls,
                      !.writes = o.writes]
  /\ main_flow' = [main_flow EXCEPT !.pc = "idle", !.c = NUL, !.file = "none"]
  /\ UNCHANGED <<board, heap_position, halted, shim, reg, platform_newlib,
                 put_log, put_via, put_to, run>>

\* an interrupt handler calls PutChar(c, stdout) before the statement the main
\* flow runs next; the handler's call runs to completion
InterruptPutChar(c) ==
  /\ shim = "syscall.hpp"
  /\ main_flow.pc \in {"push_back", "newline_check"}
  /\ Len(put_log) < MaxPut
  /\ LET o == PutCharOutcome(c, iob[StdoutEntry])
     IN /\ buffer' = o.buffer
        /\ put_log' = Append(put_log, c)
        /\ put_via' = Append(put_via, StdoutEntry)
        /\ put_to' = Append(put_to, GetWriter(Get))
        /\ run' = IF buffer = <<>> THEN <<c>> ELSE Append(run, c)
        /\ run_flushes' = (IF buffer = <<>> THEN <<>> ELSE run_flushes) \o o.writes
        /\ flushed' = flushed \o o.writes
        /\ last' = [NoOp EXCEPT !.op = "PutChar", !.reg_id = Get,
                      !.file = iob[StdoutEntry], !.data = <<c>>, !.len = 1,
                      !.ret = o.ret, !.calls = o.calls, !.writes = o.writes]
  /\ main_flow' = [main_flow EXCEPT !.windows = @ \cup {main_flow.pc}]
  /\ UNCHANGED <<board, heap_position, halted, shim, reg, platform_newlib>>

\* the main flow, outside PutChar, calls Flush
MainFlush == main_flow.pc = "idle" /\ Flush

\* a program whose default registry holds one writer and that uses stdio from
\* the main flow and from an interrupt handler
InitInterrupt == InitTable

NextInterrupt ==
  \/ \E c \in Chars : MainCapacityCheck(c)
  \/ MainPushBack
  \/ MainNewlineCheck
  \/ \E c \in Chars : InterruptPutChar(c)
  \/ MainFlush

SpecInterrupt == InitInterrupt /\ [][NextInterrupt]_vars

----------------------------------------------------------------------------
(* puts and fputs of newlib.hpp.                                           *)

\* the largest low word of a FILE * the program passes
MaxFileInt == 2

\* a const char * argument: the bytes at the address, up to a terminating NUL
\* the program has put there
CStrings == {s \o <<NUL>> : s \in SeqsUpTo({"h", Newline, NUL}, MaxLen)}

\* strlen(str): the number of bytes before the first NUL
strlen(str) ==
  (CHOOSE k \in 1..Len(str) :
     str[k] = NUL /\ \A j \in 1..(k - 1) : str[j] # NUL) - 1

\* a FILE * argument as the intptr_t it converts to: the word that fits an
\* int and the bits above it (none on a target whose pointers are int-sized)
FilePointers == [high : {0, 1}, low : 0..MaxFileInt]

\* fputs: intptr_t file_intptr = reinterpret_cast<intptr_t>(file);
\*        int file_int = static_cast<int>(file_intptr);
file_int(file) == file.low

\* the first argument of _write, an int
Fd(n) == "fd " \o ToString(n)

\* puts that passes the string and the newline to the writers in one call
PutsOneWrite(str) ==
  LET string_length == strlen(str)
      text == SubSeq(str, 1, string_length) \o <<Newline>>
      only == NewlibWriteOutcome(Fd(0), text)
  IN [writes |-> <<WriteCall(Fd(0), text)>>, calls |-> only.calls,
      ret |-> only.ret]

\* puts: int string_length = static_cast<int>(strlen(str)); int result = 0;
\*   result += _write(0, str, string_length); result += _write(0, "\n", 1);
\*   return result;
PutsOutcome(str) ==
  LET string_length == strlen(str)
      first == NewlibWriteOutcome(Fd(0), SubSeq(str, 1, string_length))
      second == NewlibWriteOutcome(Fd(0), <<Newline>>)
  IN [writes |-> <<WriteCall(Fd(0), SubSeq(str, 1, string_length)),
                   WriteCall(Fd(0), <<Newline>>)>>,
      calls |-> first.calls \o second.calls,
      ret |-> 0 + first.ret + second.ret]

\* fputs: result += _write(static_cast<int>(file_int), str, string_length);
\*   return result;
FputsOutcome(str, file) ==
  LET string_length == strlen(str)
      only == NewlibWriteOutcome(Fd(file_int(file)),
                                 SubSeq(str, 1, string_length))
  IN [writes |-> <<WriteCall(Fd(file_int(file)),
                             SubSeq(str, 1, string_length))>>,
      calls |-> only.calls,
      ret |-> 0 + only.ret]

\* puts(str), called by the program
Puts(str) ==
  /\ shim = "newlib.hpp"
  /\ LET o == PutsOutcome(str)
     IN last' = [NoOp EXCEPT !.op = "puts", !.reg_id = Get, !.file = Fd(0),
                   !.data = str, !.len = strlen(str), !.ret = o.ret,
                   !.calls = o.calls, !.writes = o.writes]
  /\ UNCHANGED <<board, main_flow, heap_position, halted, shim, reg,
                 platform_newlib, buffer, put_log, put_via, put_to, run,
                 run_flushes, flushed>>

\* fputs(str, file), called by the program
Fputs(str, file) ==
  /\ shim = "newlib.hpp"
  /\ LET o == FputsOutcome(str, file)
     IN last' = [NoOp EXCEPT !.op = "fputs", !.reg_id = Get, !.file = file,
                   !.data = str, !.len = strlen(str), !.ret = o.ret,
                   !.calls = o.calls, !.writes = o.writes]
  /\ UNCHANGED <<board, main_flow, heap_position, halted, shim, reg,
                 platform_newlib, buffer, put_log, put_via, put_to, run,
                 run_flushes, flushed>>

\* a program built with newlib.hpp whose platform registry holds its writers
\* and no reader
InitPuts == InitFacade /\ shim = "newlib.hpp" /\ reg["platform"].read = <<>>

NextPuts ==
  \/ \E r \in RegIds : Set(r)
  \/ \E str \in CStrings : Puts(str)
  \/ \E str \in CStrings, file \in FilePointers : Fputs(str, file)

SpecPuts == InitPuts /\ [][NextPuts]_vars

----------------------------------------------------------------------------
(* Properties of dispatch and registration.                                *)

WriteOps == {"Write", "_write"}
ReadOps == {"Read", "_read"}
AddOps == {"AddWriter", "AddReader", "AddHeapAllocators"}

\* the number of handlers a registry object holds
Registered(o) == Len(o.sbrk) + Len(o.write) + Len(o.read)

\* the positions of the reader invocations that reported a positive count
Positive(calls) == {k \in 1..Len(calls) : calls[k].result > 0}

\* C1: one Write (or _write) invokes each registered writer exactly once, in
\* registration order, each with the caller's stream id, the full buffer and
\* its length, and returns that length whatever the writers return.
C1_WriteFansOut ==
  last.op \in WriteOps =>
    LET writers == GetWriter(last.reg_id)
    IN /\ Len(last.calls) = Len(writers)
       /\ \A k \in 1..Len(writers) :
            /\ last.calls[k].h = writers[k]
            /\ last.calls[k].file = last.file
            /\ last.calls[k].data = last.data
            /\ last.calls[k].len = Len(last.data)
       /\ last.ret = Len(last.data)

\* C1 witness: a Write of a non-empty buffer through two different writers,
\* the second of which did not report the full length.
C1_Witness ==
  /\ last.op = "Write"
  /\ GetWriter(last.reg_id) = <<"w1", "w2">>
  /\ Len(last.data) = MaxLen
  /\ last.calls[2].result # Len(last.data)
  /\ last.ret = MaxLen

\* C2: Read invokes the readers in registration order and stops at the
\* first that reports a positive count k: it returns k, the destination holds
\* that reader's output, and no later reader is invoked; if every reader
\* returns 0, Read returns 0.
C2_ReadFirstSuccess ==
  last.op \in ReadOps =>
    LET readers == GetReader(last.reg_id)
        n == Len(last.calls)
    IN /\ n <= Len(readers)
       /\ \A k \in 1..n : last.calls[k].h = readers[k]
       /\ \A k \in 1..n : last.calls[k].len = last.len
       /\ Positive(last.calls) \subseteq {n}
       /\ Positive(last.calls) # {} =>
            /\ last.ret = last.calls[n].result
            /\ last.dest = ReaderFill(readers[n], Blank(last.len), last.ret)
       /\ Positive(last.calls) = {} => n = Len(readers)
       /\ (\A k \in 1..n : last.calls[k].result = 0) => last.ret = 0

\* C2 witness: two readers, the first reports 0, the second one byte.
C2_Witness ==
  /\ last.op = "Read"
  /\ GetReader(last.reg_id) = <<"r1", "r2">>
  /\ Len(last.calls) = 2
  /\ last.calls[1].result = 0
  /\ last.ret = 1
  /\ last.dest[1] = ReaderByte("r2")

\* C2 witness of the early stop: the first of two readers has data and the
\* second is not invoked.
C2_WitnessStop ==
  /\ last.op = "_read"
  /\ Len(GetReader(last.reg_id)) = 2
  /\ Len(last.calls) = 1
  /\ last.ret > 0

\* C3: if no registered reader returns a positive count, Read returns 0,
\* also when readers return a negative value and when no reader is registered.
C3_ReadZeroWithoutData ==
  (last.op \in ReadOps /\ Positive(last.calls) = {}) => last.ret = 0

\* C4: a StaticSysCall / StaticNewlib that holds callback_count handlers
\* refuses a further registration with std::bad_alloc, and a refused
\* registration leaves every handler sequence as it was.
C4_FullRegistryRefuses ==
  last.op \in AddOps =>
    LET before == last.pre_reg[last.reg_id]
    IN /\ (before.kind # "DefaultNewlib"
           /\ Registered(before) = before.callback_count)
          => last.exception = "bad_alloc"
       /\ last.exception = "bad_alloc" =>
            \A r \in RegIds :
              /\ reg[r].write = last.pre_reg[r].write
              /\ reg[r].read = last.pre_reg[r].read
              /\ reg[r].sbrk = last.pre_reg[r].sbrk

\* C4 witness: default_newlib, a StaticSysCall<2>, holds one writer and one
\* reader and refuses a second writer.
C4_Witness ==
  /\ last.op = "AddWriter"
  /\ last.reg_id = "default_newlib"
  /\ last.exception = "bad_alloc"
  /\ reg["default_newlib"].kind = "StaticSysCall"
  /\ Len(reg["default_newlib"].write) = 1
  /\ Len(reg["default_newlib"].read) = 1

\* C5: on a fresh StaticSysCall<callback_count> every registration that
\* brings the total to at most callback_count handlers succeeds.
C5_RegistersUpToCapacity ==
  (/\ last.op \in {"AddWriter", "AddReader"}
   /\ last.pre_reg[last.reg_id].kind = "StaticSysCall"
   /\ Registered(last.pre_reg[last.reg_id])
        < last.pre_reg[last.reg_id].callback_count)
  => last.exception = "none"

\* C6: with the default registry active and no handler registered, Write
\* returns the full length and reaches no registered writer, Read returns 0
\* and leaves the destination as it was, and neither raises an error.
C6_DefaultIsInert ==
  (/\ last.op \in WriteOps \cup ReadOps
   /\ last.reg_id = "default_newlib"
   /\ reg["default_newlib"].write = <<>>
   /\ reg["default_newlib"].read = <<>>)
  => /\ last.exception = "none"
     /\ \A k \in 1..Len(last.calls) :
          last.calls[k].h \notin WriterIds \cup ReaderIds
     /\ last.op \in WriteOps => last.ret = Len(last.data)
     /\ last.op \in ReadOps => last.ret = 0 /\ last.dest = Blank(last.len)

\* C6 witness: a one-byte _write before any registry is installed.
C6_Witness ==
  /\ last.op = "_write"
  /\ last.reg_id = "default_newlib"
  /\ Len(last.data) = 1
  /\ last.ret = 1

\* C6 witness of the read side: a Read of MaxLen bytes on the empty default
\* registry of SysCallManager.
C6_WitnessRead ==
  /\ last.op = "Read"
  /\ last.reg_id = "default_newlib"
  /\ last.len = MaxLen
  /\ last.ret = 0

----------------------------------------------------------------------------
(* Properties of the buffered stream.                                      *)

Range(q) == {q[k] : k \in 1..Len(q)}

\* the payloads of a sequence of Write calls
Payloads(ws) == [k \in 1..Len(ws) |-> ws[k].data]

\* C7: in every state reached by PutChar, Flush and GetChar calls made from
\* one thread of control the buffer length is at most BUFSIZ.
C7_BufferWithinCapacity == Len(buffer) <= BUFSIZ

\* C7 witness: the buffer is full after a PutChar, and a PutChar into the
\* full buffer has been made.
C7_Witness ==
  /\ last.op = "PutChar"
  /\ Len(last.pre_buffer) = BUFSIZ
  /\ Len(buffer) = 1
  /\ Len(put_log) = BUFSIZ + 1

\* C8 as claimed: from an empty buffer, PutChar of exactly capacity
\* non-newline bytes triggers exactly one flush, at the capacity boundary,
\* which delivers exactly those bytes in put order.
C8_FlushAtCapacity ==
  (/\ last.op = "PutChar"
   /\ Len(run) = BUFSIZ
   /\ Newline \notin Range(run))
  => /\ Len(run_flushes) = 1
     /\ run_flushes[1].data = run

\* C8 as the code has it: from an empty buffer, PutChar of up to capacity
\* non-newline bytes triggers no flush and leaves the bytes buffered; the
\* PutChar of the next byte flushes exactly once, before it appends, and
\* that flush hands exactly the capacity buffered bytes, in put order, to
\* the installed writers.
C8_FlushOnPutIntoFullBuffer ==
  (last.op = "PutChar" /\ Newline \notin Range(run)) =>
    /\ Len(run) <= BUFSIZ => run_flushes = <<>> /\ buffer = run
    /\ Len(run) = BUFSIZ + 1 =>
         /\ Len(run_flushes) = 1
         /\ run_flushes[1].data = SubSeq(run, 1, BUFSIZ)
         /\ run_flushes[1].to = GetWriter(Get)
         /\ last.writes = run_flushes
         /\ last.calls = WriteCalls(GetWriter(Get), stdio, SubSeq(run, 1, BUFSIZ))
         /\ buffer = <<run[BUFSIZ + 1]>>

\* C8 witness: capacity + 1 non-newline bytes, not all equal, were put from
\* an empty buffer with a writer installed, and the last PutChar flushed.
C8_Witness ==
  /\ last.op = "PutChar"
  /\ Len(run) = BUFSIZ + 1
  /\ Newline \notin Range(run)
  /\ run[1] # run[2]
  /\ GetWriter(Get) # <<>>
  /\ Len(last.calls) = 1

\* C9: PutChar of a newline flushes within the call, whether or not the
\* buffer was full: the bytes buffered before it and the newline are handed
\* to the writers, in order, and the buffer is empty when PutChar returns.
C9_NewlineFlushes ==
  (last.op = "PutChar" /\ last.data = <<Newline>>) =>
    /\ buffer = <<>>
    /\ Flatten(Payloads(last.writes)) = Append(last.pre_buffer, Newline)
    /\ \A k \in 1..Len(last.writes) : last.writes[k].to = GetWriter(Get)
    /\ last.calls =
         Flatten([k \in 1..Len(last.writes) |->
                    WriteCalls(GetWriter(Get), stdio, last.writes[k].data)])

\* C9 witness: a newline put into a full buffer with a writer installed; the
\* writer is called twice.
C9_Witness ==
  /\ last.op = "PutChar"
  /\ last.data = <<Newline>>
  /\ Len(last.pre_buffer) = BUFSIZ
  /\ Len(GetWriter(Get)) = 1
  /\ Len(last.calls) = 2
  /\ buffer = <<>>

\* C9 witness of the other case: a newline put into a buffer that is neither
\* empty nor full.
C9_WitnessNotFull ==
  /\ last.op = "PutChar"
  /\ last.data = <<Newline>>
  /\ Len(last.pre_buffer) = 1
  /\ Len(last.calls) = 1

\* C10: with a single writer installed and an empty buffer, putting k
\* non-newline bytes and then a newline (k + 1 <= capacity) makes the writer
\* receive exactly those k + 1 bytes, in order, in exactly one Write call,
\* made by the PutChar of the newline; nothing reaches it before.
C10_LineInOneFlush ==
  (/\ last.op = "PutChar"
   /\ Len(GetWriter(Get)) = 1
   /\ run # <<>>
   /\ Len(run) <= BUFSIZ)
  => IF run[Len(run)] = Newline
       THEN /\ Len(run_flushes) = 1
            /\ run_flushes[1].data = run
            /\ run_flushes[1].to = GetWriter(Get)
            /\ last.writes = run_flushes
            /\ last.calls = WriteCalls(GetWriter(Get), stdio, run)
       ELSE run_flushes = <<>> /\ last.calls = <<>>

\* C10 witness: "hi\n" put through stdio with the single writer w1.
C10_Witness ==
  /\ last.op = "PutChar"
  /\ GetWriter(Get) = <<"w1">>
  /\ run = <<"h", "i", Newline>>
  /\ Len(last.calls) = 1
  /\ last.calls[1].data = <<"h", "i", Newline>>
  /\ last.calls[1].h = "w1"

----------------------------------------------------------------------------
(* Properties of Flush and GetChar.                                        *)

\* C11 as claimed: when Flush is called twice in a row, no registered writer
\* is invoked by the second Flush and the buffer length stays 0.
C11_SecondFlushInvokesNoWriter ==
  [][(last.op = "Flush" /\ last'.op = "Flush") =>
       (last'.calls = <<>> /\ buffer' = <<>>)]_vars

\* C11: when Flush is called twice in a row, the second Flush still makes
\* its one Write call, of an empty buffer: every registered writer is invoked
\* once with length 0, no byte is delivered, and the buffer length stays 0.
C11_SecondFlushWritesNothing ==
  [][(last.op = "Flush" /\ last'.op = "Flush") =>
       /\ buffer = <<>>
       /\ buffer' = <<>>
       /\ last'.writes = <<[file |-> stdio, data |-> <<>>, to |-> GetWriter(Get)]>>
       /\ last'.calls = WriteCalls(GetWriter(Get), stdio, <<>>)
       /\ \A k \in 1..Len(last'.calls) : last'.calls[k].len = 0
       /\ last'.ret = 0]_vars

\* C11 witness: bytes without a newline were put, Flush delivered them, and
\* the Flush called next invoked the installed writer with an empty buffer.
C11_Witness ==
  /\ last.op = "Flush"
  /\ Len(flushed) = 2
  /\ flushed[1].data = put_log
  /\ put_log # <<>>
  /\ Newline \notin {put_log[k] : k \in 1..Len(put_log)}
  /\ flushed[2].data = <<>>
  /\ last.pre_buffer = <<>>
  /\ Len(GetWriter(Get)) = 1
  /\ Len(last.calls) = 1
  /\ last.calls[1].data = <<>>
  /\ buffer = <<>>

\* C12: Flush hands the whole buffer to Write in one call, then sets the
\* buffer length to 0 whatever the writers returned, and returns 0.
C12_FlushClearsAlways ==
  last.op = "Flush" =>
    /\ last.writes = <<[file |-> stdio, data |-> last.pre_buffer,
                        to |-> GetWriter(Get)]>>
    /\ last.calls = WriteCalls(GetWriter(Get), stdio, last.pre_buffer)
    /\ buffer = <<>>
    /\ last.ret = 0

\* C12 witness: Flush of a buffer holding bytes while the installed writer
\* reports an error.
C12_Witness ==
  /\ last.op = "Flush"
  /\ last.pre_buffer # <<>>
  /\ GetWriter(Get) = <<"w2">>
  /\ last.calls[1].result < 0
  /\ buffer = <<>>
  /\ last.ret = 0

\* the handlers a sequence of invocations went to, in call order
HandlersOf(calls) == [k \in 1..Len(calls) |-> calls[k].h]

IsPrefix(p, q) == Len(p) <= Len(q) /\ p = SubSeq(q, 1, Len(p))

\* C13: GetChar makes one Read that asks for exactly one byte; it returns the
\* byte supplied by the first reader that reports a positive count, and the
\* NUL byte whenever no reader reports data.
C13_GetCharByteOrNul ==
  last.op = "GetChar" =>
    LET P == Positive(last.calls)
    IN /\ IsPrefix(HandlersOf(last.calls), GetReader(Get))
       /\ \A k \in 1..Len(last.calls) :
            last.calls[k].len = 1 /\ last.calls[k].file = stdio
       /\ IF P # {}
            THEN LET first == CHOOSE k \in P : \A j \in P : k <= j
                 IN /\ last.byte = ReaderByte(last.calls[first].h)
                    /\ first = Len(last.calls)
            ELSE /\ last.byte = NUL
                 /\ Len(last.calls) = Len(GetReader(Get))

\* C13 witness: two readers are installed; the first reports no data and the
\* second supplies the byte GetChar returns.
C13_Witness ==
  /\ last.op = "GetChar"
  /\ GetReader(Get) = <<"r2", "r1">>
  /\ Len(last.calls) = 2
  /\ last.calls[1].result = 0
  /\ last.calls[2].result = 1
  /\ last.byte = "A"

\* C13 witness of the other case: the installed readers report 0 and an
\* error, and GetChar returns NUL.
C13_WitnessNul ==
  /\ last.op = "GetChar"
  /\ Len(GetReader(Get)) = 2
  /\ last.calls[1].result = 0
  /\ last.calls[2].result < 0
  /\ last.byte = NUL

\* C14: Get returns the default registry until Set is called and from then on
\* the registry passed to the most recent Set; Write, Read and GetChar invoke
\* the handlers of that registry only, so a registry that was installed
\* before is no longer called.
C14_ActiveRegistry ==
  /\ Get = "default_newlib"
  /\ [][/\ last'.op = "Set" => Get' = last'.reg_id
        /\ last'.op # "Set" => Get' = Get
        /\ last'.op \in WriteOps =>
             HandlersOf(last'.calls) = GetWriter(Get)'
        /\ last'.op \in ReadOps \cup {"GetChar"} =>
             IsPrefix(HandlersOf(last'.calls), GetReader(Get)')]_vars

\* C14 witness: Set installed the platform registry; the two registries hold
\* different writers and a Write reached the platform registry's writer only.
C14_Witness ==
  /\ last.op \in WriteOps
  /\ Get = "platform"
  /\ GetWriter("platform") = <<"w2">>
  /\ GetWriter("default_newlib") \in {<<"w1">>, <<"dummy_write_function">>}
  /\ HandlersOf(last.calls) = <<"w2">>

----------------------------------------------------------------------------
(* Properties of the registry's views.                                     *)

\* C15: the views of a registry only grow at their end: after any sequence
\* of successful and failed registrations each view lists the successfully
\* registered handlers in registration order, so a view read earlier is a
\* prefix of every view read later; a failed registration changes no view.
C15_ViewsAppendOnly ==
  [][\A r \in RegIds :
       /\ IsPrefix(GetWriter(r), GetWriter(r)')
       /\ IsPrefix(GetReader(r), GetReader(r)')
       /\ IsPrefix(GetHeapAllocators(r), GetHeapAllocators(r)')
       /\ (last'.op \in AddOps /\ last'.reg_id = r) =>
            LET h == last'.data[1]
                ok == last'.exception = "none"
                grown(op, view) == IF last'.op = op /\ ok THEN Append(view, h)
                                   ELSE view
            IN /\ GetWriter(r)' = grown("AddWriter", GetWriter(r))
               /\ GetReader(r)' = grown("AddReader", GetReader(r))
               /\ GetHeapAllocators(r)' =
                    grown("AddHeapAllocators", GetHeapAllocators(r))]_vars

\* C15 witness: w1 and then w2 were registered, a further registration was
\* refused, and the writer view still lists w1, w2 in that order.
C15_Witness ==
  /\ last.op \in AddOps
  /\ last.exception = "bad_alloc"
  /\ last.reg_id = "platform"
  /\ GetWriter("platform") = <<"w1", "w2">>
  /\ last.pre_reg["platform"].write = <<"w1", "w2">>

----------------------------------------------------------------------------
(* Properties of AddSerial.                                                *)

\* C16: an AddSerial that returns has appended exactly one writer and one
\* reader, the closures over the peripheral. The writer hands the full buffer
\* to the peripheral's Write and returns the full length. The reader asks
\* HasData first: without data it returns 0 and does not call the
\* peripheral's Read, with data it calls Read once for the requested length
\* and returns the count Read reports.
C16_AddSerialClosures ==
  /\ (last.op = "AddSerial" /\ last.exception = "none") =>
       LET r == last.reg_id
       IN /\ GetWriter(r) = Append(last.pre_reg[r].write, SerialWriter)
          /\ GetReader(r) = Append(last.pre_reg[r].read, SerialReader)
          /\ \A q \in RegIds \ {r} : reg[q] = last.pre_reg[q]
  /\ \A k \in 1..Len(last.calls) :
       LET c == last.calls[k]
       IN /\ c.h = SerialWriter =>
               /\ c.port = <<PortCall("Write", last.data, Len(last.data), 0)>>
               /\ c.result = Len(last.data)
          /\ c.h = SerialReader =>
               /\ c.port # <<>>
               /\ c.port[1].fn = "HasData"
               /\ IF c.port[1].result = 0
                    THEN Len(c.port) = 1 /\ c.result = 0
                    ELSE /\ Len(c.port) = 2
                         /\ c.port[2].fn = "Read"
                         /\ c.port[2].len = last.len
                         /\ c.result = c.port[2].result

\* C16 witness: AddSerial was called on the platform registry, which Set
\* installed; a Read reached the peripheral, which had data and reported a
\* positive count.
C16_Witness ==
  /\ last.op = "Read"
  /\ GetWriter(Get) = <<SerialWriter>>
  /\ GetReader(Get) = <<SerialReader>>
  /\ last.len = MaxLen
  /\ Len(last.calls[1].port) = 2
  /\ last.calls[1].port[2].result = MaxLen
  /\ last.ret = MaxLen

\* C16 witness of the reader without data
C16_WitnessNoData ==
  /\ last.op = "Read"
  /\ last.len > 0
  /\ GetReader(Get) = <<SerialReader>>
  /\ last.calls[1].port = <<PortCall("HasData", <<>>, 0, 0)>>
  /\ last.ret = 0

\* C16 witness of the writer: a Write of a non-empty buffer through the
\* peripheral's closure
C16_WitnessWrite ==
  /\ last.op = "Write"
  /\ Len(last.data) = MaxLen
  /\ GetWriter(Get) = <<SerialWriter>>
  /\ last.calls[1].port[1].data = last.data

\* C16 witness of the registration: AddSerial returned on an empty registry
C16_WitnessAppend ==
  /\ last.op = "AddSerial"
  /\ last.exception = "none"
  /\ Registered(last.pre_reg[last.reg_id]) = 0
  /\ GetWriter(last.reg_id) = <<SerialWriter>>
  /\ GetReader(last.reg_id) = <<SerialReader>>

----------------------------------------------------------------------------
(* Properties of heap extension.                                           *)

\* C17: when every registered heap allocator returns nullptr and the
\* built-in heap region has fewer than increment bytes left, _sbrk returns
\* nullptr and leaves heap_position unchanged.
C17_SbrkOutOfMemory ==
  (/\ last.op = "_sbrk"
   /\ Len(last.calls) = Len(GetHeapAllocators(Get))
   /\ \A k \in 1..Len(last.calls) : last.calls[k].result = nullptr
   /\ heap_end - last.pre_heap < last.len)
  => /\ last.ptr = nullptr
     /\ heap_position = last.pre_heap

\* C17 witness: the registered allocator a1 refused, the built-in region had
\* one byte left and two were asked for.
C17_Witness ==
  /\ last.op = "_sbrk"
  /\ GetHeapAllocators(Get) = <<"a1">>
  /\ Len(last.calls) = 1
  /\ last.calls[1].result = nullptr
  /\ last.pre_heap = heap_end - 1
  /\ last.len = 2
  /\ last.ptr = nullptr
  /\ heap_position = heap_end - 1

----------------------------------------------------------------------------
(* Properties of termination.                                              *)

\* the positions of a byte in a text
Positions(text, b) == {k \in 1..Len(text) : text[k] = b}

\* C18: _exit(code) never returns and always runs the same three steps in
\* order. Its output holds the exit-code report once, framed as a normal
\* termination (green) when code >= 0 and as an abnormal one (red) when
\* code < 0; the uncaught-fault report follows it; then _exit halts for good:
\* once halted, nothing changes any more, so no further output reaches any
\* writer.
C18_ExitReportsThenHalts ==
  /\ [](last.op = "_exit" =>
          LET text == last.data
              code == Positions(text, "Program Returned Exit Code: ")
              fault == Positions(text, "Uncaught exception: ")
              frame == IF last.len >= 0 THEN "SJ2_BACKGROUND_GREEN"
                       ELSE "SJ2_BACKGROUND_RED"
          IN /\ halted
             /\ Cardinality(code) = 1
             /\ Cardinality(fault) = 1
             /\ \A c \in code :
                  /\ text[c - 1] = frame
                  /\ text[c + 1] = CodeText(last.len)
                  /\ \A f \in fault : c < f
             /\ "SJ2_BACKGROUND_GREEN" \in Range(text) <=> last.len >= 0)
  /\ [](halted => last.op = "_exit")
  /\ [][halted => UNCHANGED vars]_vars

\* C18 witness: _exit(-1) with a pending std::exception, with the writer w1
\* installed, has written its reports and halted.
C18_Witness ==
  /\ halted
  /\ last.op = "_exit"
  /\ last.len < 0
  /\ last.fault = "std::exception"
  /\ GetWriter(Get) = <<"w1">>
  /\ last.calls # <<>>

\* C18 witness of the other report: _exit(0) without a pending fault
C18_WitnessNormal ==
  /\ halted
  /\ last.len = 0
  /\ last.fault = "none"
  /\ "SJ2_BACKGROUND_GREEN" \in Range(last.data)

\* C19 as claimed: by the time _exit enters its final loop every byte given
\* to PutChar, the text of the exit-code report and of the fault report
\* included, has been delivered to the writers and the buffer length is 0.
C19_FlushedAtHalt ==
  halted =>
    /\ buffer = <<>>
    /\ Flatten(Payloads(flushed)) = put_log

\* C20 as claimed: HandleExceptionPointer reports a pending fault in exactly
\* one of three ways chosen by the fault's class: an sjsu::Exception through
\* its Print, a std::exception with its what() text, any other value as
\* unknown; the fault does not propagate to the caller.
C20_ThreeWayReport ==
  (last.op \in {"HandleExceptionPointer", "_exit"} /\ last.fault # "none") =>
    LET text == Range(last.data)
        typed == "sjsu::Exception::Print()" \in text
        generic == "std::exception(" \in text /\ WhatText \in text
        unknown == "Unknown..." \in text
    IN /\ last.exception = "none"
       /\ typed <=> last.fault = "sjsu::Exception"
       /\ generic <=> last.fault = "std::exception"
       /\ unknown <=> last.fault = "other"

----------------------------------------------------------------------------
(* Properties of the standard-stream table.                                *)

\* the bytes the Write calls ws carried, in order
Delivered(ws) == Flatten(Payloads(ws))

\* C21: stdin, stdout and stderr are one stream object with one buffer: the
\* bytes put through stdout and stderr, in whatever interleaving, go through
\* the one FILE stdio into the one buffer, and the Write calls carry them to
\* the writers in the order of the PutChar calls.
C21_OneStreamOneBuffer ==
  /\ Len(put_via) = Len(put_log)
  /\ Delivered(flushed) \o buffer = put_log
  /\ \A k \in 1..Len(flushed) :
       /\ flushed[k].file = stdio
       /\ flushed[k].to = GetWriter(Get)
  /\ last.op = "PutChar" =>
       /\ last.file = stdio
       /\ \A k \in 1..Len(last.calls) : last.calls[k].file = stdio

\* C21 witness: a line whose bytes went through stdout, stderr and stdout
\* again has reached the writer w1 whole and in order.
C21_Witness ==
  /\ put_via = <<StdoutEntry, StderrEntry, StdoutEntry>>
  /\ put_log = <<"h", "i", Newline>>
  /\ last.op = "PutChar"
  /\ Len(last.calls) = 1
  /\ last.calls[1].h = "w1"
  /\ last.calls[1].data = <<"h", "i", Newline>>
  /\ buffer = <<>>

----------------------------------------------------------------------------
(* Properties of the Gpio helpers and of PinSettings_t.                    *)

Helpers == {"SetHigh", "SetLow", "SetAsInput", "SetAsOutput"}
SettingsCalls == {"PullUp", "PullDown", "Floating"}

\* the one virtual method, with its one argument, behind each helper
Underlying(op) ==
  CASE op = "SetAsInput" -> VirtualCall("SetDirection", "Direction::kInput")
    [] op = "SetAsOutput" -> VirtualCall("SetDirection", "Direction::kOutput")
    [] op = "SetHigh" -> VirtualCall("Set", "State::kHigh")
    [] op = "SetLow" -> VirtualCall("Set", "State::kLow")

\* C22: each Gpio helper invokes exactly one underlying operation with a
\* fixed argument and nothing else: SetAsInput SetDirection(kInput),
\* SetAsOutput SetDirection(kOutput), SetHigh Set(kHigh), SetLow Set(kLow);
\* the helper itself leaves the object's settings as they were.
C22_HelpersInvokeOne ==
  gpio.op \in Helpers =>
    /\ Len(gpio.calls) = 1
    /\ gpio.calls[1] = Underlying(gpio.op)
    /\ gpio.settings = gpio.pre
    /\ gpio.returned = gpio.pre_returned

\* C22 witness: SetLow was called on a pin with non-default settings and
\* invoked Set(kLow).
C22_Witness ==
  /\ gpio.op = "SetLow"
  /\ gpio.calls = <<VirtualCall("Set", "State::kLow")>>
  /\ gpio.settings.resistor = "kNone"
  /\ gpio.settings.open_drain

\* the resistor each settings call selects
Selected(op) ==
  CASE op = "PullUp" -> "kPullUp"
    [] op = "PullDown" -> "kPullDown"
    [] op = "Floating" -> "kNone"

C23_WitnessSequence ==
  /\ gpio.op = "Floating"
  /\ gpio.on = "settings"
  /\ gpio.pre.resistor = "kPullDown"
  /\ gpio.pre # gpio.returned
  /\ gpio.settings.resistor = "kNone"

----------------------------------------------------------------------------
(* Properties of build_info.                                               *)

\* C24: IsPlatform(p) is true exactly when the build's platform string
\* starts with p, that is when the string is p followed by some text; for a
\* build whose platform string is "host" it is true for "host" and false for
\* "lpc40xx", "lpc17xx", "lpc", "stm32f10x", "stm" and "linux".
C24_IsPlatformIsPrefixTest ==
  build.op = "IsPlatform" =>
    /\ build.ret <=>
         \E n \in 0..Len(build.kPlatform) :
            build.kPlatform = build.platform \o
                              SubSeq(build.kPlatform, n + 1, Len(build.kPlatform))
    /\ build.kPlatform = host =>
         /\ build.platform = host => build.ret
         /\ build.platform \in {lpc40xx, lpc17xx, lpc, stm32f10x, stm, linux}
              => ~build.ret

\* C24 witness: the host build is asked about "host" and answers true.
C24_Witness ==
  /\ build.op = "IsPlatform"
  /\ build.kPlatform = host
  /\ build.platform = host
  /\ build.ret

\* C24 witness: the host build is asked about "lpc" and answers false.
C24_WitnessOther ==
  /\ build.op = "IsPlatform"
  /\ build.kPlatform = host
  /\ build.platform = lpc
  /\ ~build.ret

\* C24 witness: the lpc40xx build is asked about "lpc", a proper beginning of
\* its name, and answers true.
C24_WitnessFamily ==
  /\ build.op = "IsPlatform"
  /\ build.kPlatform = lpc40xx
  /\ build.platform = lpc
  /\ build.ret

----------------------------------------------------------------------------
(* Properties of the section initialisation.                               *)

\* C25: after InitializeDataSection the RAM data region equals the ROM load
\* region byte for byte over the section's length, and after
\* InitializeBssSection every byte of the bss region is zero whatever it
\* held before; neither call changes the ROM region.
C25_SectionsInitialised ==
  /\ memory.op = "InitializeDataSection" =>
       /\ \A k \in 1..Len(memory.data_load) :
            memory.data[k] = memory.data_load[k]
       /\ memory.data_load = memory.pre.data_load
  /\ memory.op = "InitializeBssSection" =>
       /\ \A k \in 1..Len(memory.bss) : memory.bss[k] = 0
       /\ memory.data_load = memory.pre.data_load

----------------------------------------------------------------------------
(* Properties of the buffered stream over whole runs.                      *)

\* the bytes the stream's Write calls have handed to the writer w so far
DeliveredTo(w) ==
  Delivered(SelectSeq(flushed, LAMBDA x : w \in Range(x.to)))

\* C26: byte conservation: with a fixed writer installed, in every state
\* reached by PutChar and Flush calls the payloads delivered to that writer
\* so far, concatenated, followed by the buffer's contents, are the bytes
\* given to PutChar so far: none lost, none twice, none out of order.
C26_ByteConservation ==
  \A w \in Range(GetWriter(Get)) : DeliveredTo(w) \o buffer = put_log

\* C26 witness: BUFSIZ + 1 bytes were put, the writer w2, which reports a
\* failure, has been handed two payloads, and a byte is still buffered.
C26_Witness ==
  /\ GetWriter(Get) = <<"w2">>
  /\ Len(put_log) = BUFSIZ + 1
  /\ Len(flushed) >= 2
  /\ flushed[1].data # <<>>
  /\ flushed[2].data # <<>>
  /\ buffer # <<>>
  /\ DeliveredTo("w2") \o buffer = put_log

\* C27: between PutChar calls the buffer never holds a newline, and every
\* flush a PutChar triggers delivers either exactly capacity bytes with no
\* newline among them, or at most capacity bytes whose only newline is the
\* last one; PutChar of a newline into a full buffer makes two flushes, the
\* capacity buffered bytes first and the single newline second.
C27_FlushShapes ==
  /\ Newline \notin Range(buffer)
  /\ last.op = "PutChar" =>
       /\ \A k \in 1..Len(last.writes) :
            LET d == last.writes[k].data
            IN \/ /\ Len(d) = Capacity
                  /\ Newline \notin Range(d)
               \/ /\ d # <<>>
                  /\ Len(d) <= Capacity
                  /\ d[Len(d)] = Newline
                  /\ Newline \notin Range(SubSeq(d, 1, Len(d) - 1))
       /\ (last.data = <<Newline>> /\ Len(last.pre_buffer) = Capacity) =>
            Payloads(last.writes) = <<last.pre_buffer, <<Newline>>>>

\* C27 witness: a newline was put into a full buffer and two Write calls
\* were made.
C27_Witness ==
  /\ last.op = "PutChar"
  /\ last.data = <<Newline>>
  /\ Len(last.pre_buffer) = Capacity
  /\ Len(last.writes) = 2
  /\ Len(last.writes[1].data) = Capacity
  /\ last.writes[2].data = <<Newline>>
  /\ buffer = <<>>

\* C27 witness: a newline put into a buffer that was not full went out with
\* the bytes before it in one Write call shorter than the capacity.
C27_WitnessLine ==
  /\ last.op = "PutChar"
  /\ Len(last.writes) = 1
  /\ Len(last.writes[1].data) = 2
  /\ last.writes[1].data[2] = Newline
  /\ Capacity > 2

\* the writers of the registry the manager's pointer names
CurrentWriters == reg[platform_newlib].write

\* C28: buffered bytes go to the handlers that are current at flush time:
\* whatever Set and AddWriter calls came between the PutChar calls and the
\* flush, the flush hands the whole buffer, the bytes put earlier included,
\* to the writers of the registry that is current then, once each and in
\* order, and to no other writer.
C28_FlushGoesToCurrentHandlers ==
  (last.op \in {"PutChar", "Flush"} /\ flushed # <<>>) =>
    /\ flushed = last.writes
    /\ Delivered(flushed) \o buffer = put_log
    /\ \A k \in 1..Len(flushed) : flushed[k].to = CurrentWriters
    /\ HandlersOf(last.calls)
         = Flatten([k \in 1..Len(flushed) |-> CurrentWriters])
    /\ \A k \in 1..Len(last.calls) :
         /\ last.calls[k].h \in Range(CurrentWriters)
         /\ last.calls[k].data \in Range(Payloads(flushed))

\* C28 witness: a byte was put while the default registry with w1 was
\* installed, Set installed the platform registry holding w2, and the Flush
\* handed the buffer to w2 alone.
C28_Witness ==
  /\ last.op = "Flush"
  /\ put_log # <<>>
  /\ put_to[1] = <<"w1">>
  /\ platform_newlib = "platform"
  /\ CurrentWriters = <<"w2">>
  /\ HandlersOf(last.calls) = <<"w2">>
  /\ last.calls[1].data = put_log

\* C28 witness: bytes were put while the platform registry held w1 alone,
\* AddWriter added w2, and the newline's flush handed the whole line to w1
\* and to w2.
C28_WitnessAddWriter ==
  /\ last.op = "PutChar"
  /\ Len(put_log) > 1
  /\ \A k \in 1..(Len(put_log) - 1) : put_to[k] = <<"w1">>
  /\ platform_newlib = "platform"
  /\ HandlersOf(last.calls) = <<"w1", "w2">>
  /\ last.calls[1].data = put_log
  /\ last.calls[2].data = put_log

----------------------------------------------------------------------------
(* Properties of the heap extension over the allocators.                   *)

\* the heap allocators of the registry the manager's pointer names
CurrentAllocators == GetHeapAllocators(platform_newlib)

\* C29: _sbrk tries the registered heap allocators in registration order,
\* each with the increment, and returns the first non-null result without
\* invoking a later allocator, leaving heap_position as it was; the built-in
\* region is used only when every registered allocator returned nullptr, and
\* then _sbrk returns the previous heap_position and advances it by exactly
\* the increment.
C29_AllocatorsFirst ==
  last.op = "_sbrk" =>
    LET n == Len(last.calls)
        taken == n > 0 /\ last.calls[n].result # nullptr
    IN /\ n <= Len(CurrentAllocators)
       /\ \A k \in 1..n :
            /\ last.calls[k].h = CurrentAllocators[k]
            /\ last.calls[k].increment = last.len
       /\ \A k \in 1..(n - 1) : last.calls[k].result = nullptr
       /\ taken =>
            /\ last.ptr = last.calls[n].result
            /\ heap_position = last.pre_heap
       /\ ~taken => n = Len(CurrentAllocators)
       /\ last.ptr.region = "heap" =>
            /\ ~taken
            /\ last.ptr.offset = last.pre_heap
            /\ heap_position = last.pre_heap + last.len
       /\ (~taken /\ last.pre_heap + last.len <= heap_end) =>
            last.ptr.region = "heap"

\* C29 witness: with a1 registered before a2, a1 returned a block and a2 was
\* not invoked; the built-in heap, used before, stayed where it was.
C29_Witness ==
  /\ last.op = "_sbrk"
  /\ CurrentAllocators = <<"a1", "a2">>
  /\ Len(last.calls) = 1
  /\ last.ptr.region = "a1"
  /\ heap_position > 0
  /\ heap_position = last.pre_heap

\* C29 witness: a1 returned nullptr and a2, registered after it, a block.
C29_WitnessSecond ==
  /\ last.op = "_sbrk"
  /\ CurrentAllocators = <<"a1", "a2">>
  /\ Len(last.calls) = 2
  /\ last.calls[1].result = nullptr
  /\ last.ptr.region = "a2"

\* C29 witness: both allocators returned nullptr and the built-in region
\* gave the block at the previous heap_position.
C29_WitnessBuiltIn ==
  /\ last.op = "_sbrk"
  /\ Len(CurrentAllocators) = 2
  /\ Len(last.calls) = 2
  /\ last.len > 0
  /\ last.ptr = [region |-> "heap", offset |-> last.pre_heap]
  /\ heap_position = last.pre_heap + last.len

\* C30: after any sequence of _sbrk calls with positive, zero or negative
\* increments the built-in heap_position stays within the heap region, at or
\* above the heap start and at or below heap_end, so the built-in fallback
\* never returns an address outside the region.
C30_HeapPositionWithinRegion ==
  /\ heap_position \in 0..heap_end
  /\ (last.op = "_sbrk" /\ last.ptr.region = "heap") =>
       last.ptr.offset \in 0..heap_end

----------------------------------------------------------------------------
(* Properties of failure handling in registration.                         *)

\* C31: AddSerial is all-or-nothing: for every registry capacity and every
\* prior registration history, either the derived writer and the derived
\* reader are both registered, or AddSerial fails and the writer sequence and
\* the reader sequence are exactly as they were before the call.
C31_AddSerialAllOrNothing ==
  last.op = "AddSerial" =>
    LET before == last.pre_reg[last.reg_id]
        after == reg[last.reg_id]
    IN \/ /\ last.exception = "none"
          /\ after.write = Append(before.write, SerialWriter)
          /\ after.read = Append(before.read, SerialReader)
       \/ /\ last.exception = "bad_alloc"
          /\ after.write = before.write
          /\ after.read = before.read


----------------------------------------------------------------------------
(* Properties of PutChar under an interrupt.                               *)

\* the bytes the writers have received, the bytes the buffer holds and the
\* byte a PutChar of the main flow has yet to append
Accounted ==
  Delivered(flushed) \o buffer
    \o (IF main_flow.pc = "push_back" THEN <<main_flow.c>> ELSE <<>>)

Occurrences(text, b) == Cardinality(Positions(text, b))

\* C32: when an interrupt handler calls PutChar while the main flow is inside
\* PutChar between its capacity check and its append, the buffer length still
\* never exceeds the capacity, and every byte put by either context is
\* delivered to the writers exactly once: it is in one Write call, or still
\* waits in the buffer or in the main flow's PutChar.
C32_InterruptedPutCharKeepsCapacity ==
  main_flow.windows \subseteq {"push_back"} =>
    /\ Len(buffer) <= Capacity
    /\ \A b \in Chars : Occurrences(Accounted, b) = Occurrences(put_log, b)


----------------------------------------------------------------------------
(* Properties of puts and fputs.                                           *)

\* the bytes of a C string: its longest prefix that holds no NUL
Text(str) ==
  LET n == CHOOSE k \in 0..Len(str) :
             /\ \A j \in 1..k : str[j] # NUL
             /\ k < Len(str) => str[k + 1] = NUL
  IN SubSeq(str, 1, n)

\* the invocations one Write call on stream fd with the bytes data makes:
\* every registered writer, in order, with those arguments
Fanned(fd, data) ==
  [k \in 1..Len(GetWriter(Get)) |->
     [h |-> GetWriter(Get)[k], file |-> fd, data |-> data, len |-> Len(data)]]

\* the handler, stream, bytes and length of each recorded invocation
Seen(calls) ==
  [k \in 1..Len(calls) |->
     [h |-> calls[k].h, file |-> calls[k].file, data |-> calls[k].data,
      len |-> calls[k].len]]

\* C33: puts(str) makes every registered writer receive the bytes of str and
\* then a single newline byte, as two Write calls in that order on stream 0,
\* and returns strlen(str) + 1; fputs(str, file) delivers the bytes of str
\* with no newline appended, on the stream id derived from file, and returns
\* strlen(str).
C33_PutsAndFputs ==
  /\ last.op = "puts" =>
       /\ Seen(last.calls) =
            Fanned("fd 0", Text(last.data)) \o Fanned("fd 0", <<Newline>>)
       /\ [k \in 1..Len(last.writes) |-> last.writes[k].data] =
            <<Text(last.data), <<Newline>>>>
       /\ last.ret = Len(Text(last.data)) + 1
  /\ last.op = "fputs" =>
       /\ Seen(last.calls) =
            Fanned("fd " \o ToString(last.file.low), Text(last.data))
       /\ [k \in 1..Len(last.writes) |-> last.writes[k].data] =
            <<Text(last.data)>>
       /\ last.ret = Len(Text(last.data))

\* puts of a string of two bytes, with two writers registered
C33_Witness ==
  /\ last.op = "puts"
  /\ Len(Text(last.data)) = 2
  /\ Len(GetWriter(Get)) = 2
  /\ Len(last.calls) = 4


----------------------------------------------------------------------------
(* Properties of NewlibManager's default registry.                         *)

\* C34: on NewlibManager's default registry every AddWriter, AddReader and
\* AddHeapAllocators call fails with std::bad_alloc and changes nothing, and
\* after any number of such calls its GetWriter, GetReader and
\* GetHeapAllocators views hold exactly one no-op handler each, returning 0,
\* 0 and nullptr; so a registration that succeeded was made on a platform
\* registry, and dispatch reaches a handler other than the no-op ones only
\* once Set has installed such a registry.
C34_DefaultRegistryRefuses ==
  shim = "newlib.hpp" =>
    /\ (last.op \in AddOps /\ last.reg_id = "default_newlib") =>
         (last.exception = "bad_alloc" /\ reg = last.pre_reg)
    /\ GetWriter("default_newlib") = <<"dummy_write_function">>
    /\ GetReader("default_newlib") = <<"dummy_read_function">>
    /\ GetHeapAllocators("default_newlib") = <<"dummy_sbrk_function">>
    /\ \A len \in 0..MaxLen :
         /\ WriterResult("dummy_write_function", len) = 0
         /\ ReaderCounts("dummy_read_function", len) = {0}
    /\ \A gives \in BOOLEAN :
         AllocatorResult("dummy_sbrk_function", gives) = nullptr
    /\ (last.op \in AddOps /\ last.exception = "none") =>
         last.reg_id # "default_newlib"
    /\ platform_newlib = "default_newlib" =>
         /\ GetWriter(Get) = <<"dummy_write_function">>
         /\ GetReader(Get) = <<"dummy_read_function">>
         /\ GetHeapAllocators(Get) = <<"dummy_sbrk_function">>

\* an AddWriter on the default registry of newlib.hpp has just failed, after
\* the platform registry has taken a writer
C34_Witness ==
  /\ shim = "newlib.hpp"
  /\ last.op = "AddWriter"
  /\ last.reg_id = "default_newlib"
  /\ last.exception = "bad_alloc"
  /\ reg["platform"].write # <<>>
  /\ platform_newlib = "default_newlib"

====
